---- MODULE Spec2Model ----
(***************************************************************************)
(* A model of the notif realtime server core: the channel-name classifier, *)
(* the channel-auth verifier (HMAC signing of socket_id:channel[:data]),   *)
(* the Channel Hub (ChannelService) over the Redis pub/sub adapter         *)
(* (RedisRepository), the Presence Roster (PresenceService) and the        *)
(* WebSocket session loop (handle_socket).                                 *)
(*                                                                         *)
(* Strings are sequences of one-character strings, so that prefix tests    *)
(* and format!("{}:{}") concatenation are computed, not assumed.           *)
(***************************************************************************)
EXTENDS Integers, Sequences, FiniteSets, TLC

VARIABLES
    app_secret,   \* AuthService.app_secret
    signCall,     \* the last sign_channel call: its inputs and its result
    verifyCall,   \* the last verify_channel_auth call: its inputs and its result
    subscribers,  \* ChannelService.subscribers: channel -> its broadcast (0: no entry)
    hubLock,      \* the holder of subscribers.write() across an await (0: free)
    hubCall,      \* per caller of ChannelService::subscribe: where it is, its result
    hubStats,     \* per channel: the adapter calls and returns counted so far
    published,    \* per channel: the payloads PUBLISHed at the bus, in bus order
    upstreams,    \* the adapter subscriptions made, each with its two tasks
    receivers,    \* the Hub receivers handed out, each with what it has received
    sess,         \* per WebSocket: handle_socket's position and local state
    rosterSet,    \* per channel: the bus set notif:presence:<channel> of socket ids
    rosterHash,   \* per channel: the bus hash notif:presence_hash:<channel>
    classifyCall, \* the last ChannelType::from_name call: its input and its results
    memberLog,    \* per channel and socket: the last Roster call that returned Ok
    listCall,     \* the last list_members call: its channel and what it returned
    audit,        \* the audit store: the channels and ws_connections tables
    domains,      \* the domains table: one row, with one API key, per domain
    httpCall,     \* the last POST /api/broadcast: its inputs and its response
    originCall,   \* the last parse_origin_host or domain_matches call
    upgradeCall   \* per WebSocket: the upgrade request and what ws_handler returned

authVars == <<app_secret, signCall, verifyCall>>

hubVars == <<subscribers, hubLock, hubCall, hubStats, published, upstreams, receivers>>

rosterVars == <<rosterSet, rosterHash>>

sessVars == <<sess, rosterSet, rosterHash, audit>>

httpVars == <<domains, httpCall, originCall, upgradeCall>>

callVars == <<classifyCall, memberLog, listCall, httpVars>>

vars == <<callVars, authVars, hubVars, sessVars>>

----------------------------------------------------------------------------
(* Option<T> *)

None == [some |-> FALSE, val |-> <<>>]

Some(v) == [some |-> TRUE, val |-> v]

unwrap_or(o, d) == IF o.some THEN o.val ELSE d

----------------------------------------------------------------------------
(* models/channel.rs *)

PRESENCE_PREFIX == <<"p", "r", "e", "s", "e", "n", "c", "e", "-">>

PRIVATE_PREFIX == <<"p", "r", "i", "v", "a", "t", "e", "-">>

starts_with(s, p) == Len(s) >= Len(p) /\ SubSeq(s, 1, Len(p)) = p

\* As from_name, with a prefix that may stand anywhere in the name.
from_name_anywhere(name) ==
    IF \E i \in 0 .. Len(name) :
          starts_with(SubSeq(name, i + 1, Len(name)), PRESENCE_PREFIX) THEN "Presence"
    ELSE IF \E i \in 0 .. Len(name) :
          starts_with(SubSeq(name, i + 1, Len(name)), PRIVATE_PREFIX) THEN "Private"
    ELSE "Public"

from_name(name) ==
    IF starts_with(name, PRESENCE_PREFIX) THEN "Presence"
    ELSE IF starts_with(name, PRIVATE_PREFIX) THEN "Private"
    ELSE "Public"

is_private(t) == t \in {"Private", "Presence"}

\* The names given to the classifier: a prefix, or something close to one, with
\* something before it and something after it (each possibly empty).
ClassifyHeads == {<<>>, <<"x">>, <<" ">>, <<"-">>}

ClassifyCores ==
    {<<>>, PRESENCE_PREFIX, PRIVATE_PREFIX,
     <<"p", "r", "e", "s", "e", "n", "c", "e">>,
     <<"p", "r", "i", "v", "a", "t", "e">>,
     <<"P", "r", "e", "s", "e", "n", "c", "e", "-">>,
     <<"p", "r", "i", "v", "a", "t", "e", "_">>}

ClassifyTails ==
    {<<>>, <<"a">>, PRESENCE_PREFIX, PRIVATE_PREFIX, <<"r", "o", "o", "m">>}

ClassifyNames ==
    {h \o c \o t : h \in ClassifyHeads, c \in ClassifyCores, t \in ClassifyTails}

NoClassify == [made |-> FALSE, name |-> <<>>, type |-> "none", private |-> FALSE]

\* ChannelType::from_name(name) and is_private() of its result
Classify(name) ==
    /\ classifyCall' = [made |-> TRUE, name |-> name, type |-> from_name(name),
                        private |-> is_private(from_name(name))]
    /\ UNCHANGED <<memberLog, listCall, httpVars, authVars, hubVars, sessVars>>

----------------------------------------------------------------------------
(* services/auth.rs *)

\* hex::encode(HMAC-SHA256(key, msg)) as an ideal MAC: the digest of (key, msg)
\* is a value that only the same key and the same message bytes produce.
HmacSha256Hex(key, msg) == [kind |-> "hmac", key |-> key, msg |-> msg]

\* An auth string that is no digest at all (the tests' "wrong").
WrongAuth == [kind |-> "text", key |-> <<>>, msg |-> <<"w", "r", "o", "n", "g">>]

NoAuth == [some |-> FALSE, val |-> [kind |-> "none", key |-> <<>>, msg |-> <<>>]]

COLON == <<":">>

EMPTY_OBJECT == <<"{", "}">>

\* sign_channel: Presence signs socket_id:channel:channel_data with "{}" for a
\* missing channel_data; every other channel signs socket_id:channel.
sign_payload_for_sign(socket_id, channel, channel_data) ==
    IF from_name(channel) = "Presence"
    THEN socket_id \o COLON \o channel \o COLON \o unwrap_or(channel_data, EMPTY_OBJECT)
    ELSE socket_id \o COLON \o channel

sign_channel(socket_id, channel, channel_data) ==
    HmacSha256Hex(app_secret, sign_payload_for_sign(socket_id, channel, channel_data))

\* verify_channel_auth: Presence signs with "" for a missing channel_data.
sign_payload_for_verify(socket_id, channel, channel_data) ==
    IF from_name(channel) = "Presence"
    THEN socket_id \o COLON \o channel \o COLON \o unwrap_or(channel_data, <<>>)
    ELSE socket_id \o COLON \o channel

verify_channel_auth_no_bypass(channel, socket_id, auth, channel_data) ==
    IF ~auth.some THEN "ErrMissingAuth"
    ELSE IF auth.val # HmacSha256Hex(app_secret,
                          sign_payload_for_verify(socket_id, channel, channel_data))
         THEN "ErrInvalidSignature"
    ELSE "Ok"

verify_channel_auth(channel, socket_id, auth, channel_data) ==
    IF ~is_private(from_name(channel)) THEN "Ok"
    ELSE IF ~auth.some THEN "ErrMissingAuth"
    ELSE IF auth.val # HmacSha256Hex(app_secret,
                          sign_payload_for_verify(socket_id, channel, channel_data))
         THEN "ErrInvalidSignature"
    ELSE "Ok"

----------------------------------------------------------------------------
(* Inputs of the auth calls *)

Secrets == {<<"k", "1">>, <<"k", "2">>}

ROOM == <<"r", "o", "o", "m">>

PRIVATE_A == PRIVATE_PREFIX \o <<"a">>

PRESENCE_A == PRESENCE_PREFIX \o <<"a">>

\* a channel name that continues PRESENCE_A with ":x"
PRESENCE_A_X == PRESENCE_A \o <<":", "x">>

AuthChannels == {ROOM, PRIVATE_A, PRESENCE_A, PRESENCE_A_X}

AuthSocketIds == {<<"1", ".", "a">>, <<"1", ".", "b">>}

AuthChannelData == {None, Some(EMPTY_OBJECT), Some(<<"y">>), Some(<<"x", ":", "y">>)}

NoSig == [kind |-> "none", key |-> <<>>, msg |-> <<>>]

NoCall ==
    [made |-> FALSE, socket_id |-> <<>>, channel |-> <<>>, channel_data |-> None,
     auth |-> NoAuth, out |-> NoSig, result |-> "none"]

\* The auth strings a client can present: none, text that is no digest, or the
\* digest the last sign call returned.
AuthOffers ==
    {NoAuth, [some |-> TRUE, val |-> WrongAuth]}
      \cup (IF signCall.made THEN {[some |-> TRUE, val |-> signCall.out]} ELSE {})

SignChannel(socket_id, channel, channel_data) ==
    /\ signCall' = [made |-> TRUE, socket_id |-> socket_id, channel |-> channel,
                    channel_data |-> channel_data, auth |-> NoAuth,
                    out |-> sign_channel(socket_id, channel, channel_data),
                    result |-> "Ok"]
    /\ UNCHANGED <<callVars, app_secret, verifyCall, hubVars, sessVars>>

VerifyChannelAuth(channel, socket_id, auth, channel_data) ==
    /\ verifyCall' = [made |-> TRUE, socket_id |-> socket_id, channel |-> channel,
                      channel_data |-> channel_data, auth |-> auth, out |-> NoSig,
                      result |-> verify_channel_auth(channel, socket_id, auth,
                                                     channel_data)]
    /\ UNCHANGED <<callVars, app_secret, signCall, hubVars, sessVars>>

----------------------------------------------------------------------------
(* The bus, the adapter (repositories/redis_repo.rs) and the Hub            *)
(* (services/channel.rs)                                                    *)

\* broadcast::channel(64): what a receiver has not read is kept up to 64 deep
BROADCAST_CAPACITY == 64

NCallers == 3       \* tasks calling the Hub

MaxHubCalls == 3    \* ChannelService::subscribe calls in a run

MaxMsgs == 1        \* payloads published in a run

MaxBurst == 66      \* payloads published in the burst scenario

MaxUnsubs == 1      \* ChannelService::unsubscribe calls per channel

BurstCalls == 1     \* ChannelService::subscribe calls in the burst scenario

MaxFanMsgs == 2     \* payloads published in the fan-out scenario

FanCalls == 2       \* ChannelService::subscribe calls in the fan-out scenario

Callers == 1 .. NCallers

PRESENCE_B == PRESENCE_PREFIX \o <<"b">>

\* The channel names of a run
Channels == {ROOM, PRIVATE_A, PRESENCE_A, PRESENCE_B}

\* The channels the Hub's callers name
HubChannels == {ROOM, PRESENCE_A}

Events == {"msg"}

\* serde_json::to_string(&WsEvent {event, channel, data})
WsEventJson(event, channel, data) ==
    [event |-> event, channel |-> channel, data |-> data]

IdleCall == [pc |-> "idle", channel |-> <<>>]

NoStats == [adapterCalls |-> 0, adapterOk |-> 0, okReturns |-> 0, errReturns |-> 0,
            unsubs |-> 0]

SubscribeCalls ==
    LET n[S \in SUBSET Channels] ==
          IF S = {} THEN 0
          ELSE LET c == CHOOSE x \in S : TRUE
               IN  hubStats[c].okReturns + hubStats[c].errReturns + n[S \ {c}]
    IN  n[Channels] + Cardinality({k \in Callers : hubCall[k].pc # "idle"})

Published ==
    LET n[S \in SUBSET Channels] ==
          IF S = {} THEN 0
          ELSE LET c == CHOOSE x \in S : TRUE IN Len(published[c]) + n[S \ {c}]
    IN  n[Channels]

\* As NewReceiver, reading the broadcast from its first payload.
NewReceiver_from_start(u, hlog, abuf) ==
    [bc |-> u, attach |-> Len(hlog), next |-> 0, got |-> <<>>,
     live |-> TRUE, exit |-> "none", yieldedAtAttach |-> Len(abuf)]

\* The receiver tx.subscribe() returns: it starts at the broadcast's tail.
NewReceiver(u, hlog, abuf) ==
    [bc |-> u, attach |-> Len(hlog), next |-> Len(hlog), got |-> <<>>,
     live |-> TRUE, exit |-> "none", yieldedAtAttach |-> Len(abuf)]

\* RedisRepository::subscribe_to_channel, when it succeeds: the bus subscription
\* starts after what is published so far; its task and its broadcast are new.
NewUpstream(c) ==
    [channel |-> c, from |-> Len(published[c]), taken |-> 0, open |-> TRUE,
     abuf |-> <<>>, fwdNext |-> 0, fwdAlive |-> TRUE, hlog |-> <<>>]

\* ChannelService::subscribe up to its first suspension inside the critical
\* section: with an entry it returns a receiver; without one it calls the
\* adapter and keeps the write lock across that await.
subscribe_enter_unlocked(k, c) ==
    /\ hubCall[k].pc = "idle"
    /\ hubLock = 0
    /\ IF subscribers[c] # 0
       THEN /\ receivers' = Append(receivers,
                   NewReceiver(subscribers[c], upstreams[subscribers[c]].hlog,
                               upstreams[subscribers[c]].abuf))
            /\ hubStats' = [hubStats EXCEPT ![c].okReturns = @ + 1]
            /\ UNCHANGED <<hubCall, hubLock>>
       ELSE /\ hubCall' = [hubCall EXCEPT ![k] = [pc |-> "adapter", channel |-> c]]
            /\ hubStats' = [hubStats EXCEPT ![c].adapterCalls = @ + 1]
            /\ UNCHANGED <<hubLock, receivers>>
    /\ UNCHANGED <<subscribers, published, upstreams>>

subscribe_enter(k, c) ==
    /\ hubCall[k].pc = "idle"
    /\ hubLock = 0
    /\ IF subscribers[c] # 0
       THEN /\ receivers' = Append(receivers,
                   NewReceiver(subscribers[c], upstreams[subscribers[c]].hlog,
                               upstreams[subscribers[c]].abuf))
            /\ hubStats' = [hubStats EXCEPT ![c].okReturns = @ + 1]
            /\ UNCHANGED <<hubCall, hubLock>>
       ELSE /\ hubCall' = [hubCall EXCEPT ![k] = [pc |-> "adapter", channel |-> c]]
            /\ hubLock' = k
            /\ hubStats' = [hubStats EXCEPT ![c].adapterCalls = @ + 1]
            /\ UNCHANGED receivers
    /\ UNCHANGED <<subscribers, published, upstreams>>

\* ChannelService::subscribe after subscribe_to_channel returns: an error is
\* propagated by `?`; otherwise the broadcast is made, its forwarder spawned,
\* the sender inserted and a receiver derived from it.
subscribe_adapter_returns(k, ok) ==
    /\ hubCall[k].pc = "adapter"
    /\ LET c == hubCall[k].channel
           u == Len(upstreams) + 1
       IN  IF ok
           THEN /\ upstreams' = Append(upstreams, NewUpstream(c))
                /\ subscribers' = [subscribers EXCEPT ![c] = u]
                /\ receivers' = Append(receivers, NewReceiver(u, <<>>, <<>>))
                /\ hubStats' = [hubStats EXCEPT ![c].adapterOk = @ + 1,
                                                ![c].okReturns = @ + 1]
           ELSE /\ hubStats' = [hubStats EXCEPT ![c].errReturns = @ + 1]
                /\ UNCHANGED <<upstreams, subscribers, receivers>>
    /\ hubCall' = [hubCall EXCEPT ![k] = IdleCall]
    /\ hubLock' = IF hubLock = k THEN 0 ELSE hubLock
    /\ UNCHANGED published

\* As unsubscribe, with the whole map cleared.
unsubscribe_clearing(c) ==
    /\ hubLock = 0
    /\ subscribers' = [d \in Channels |-> 0]
    /\ hubStats' = [hubStats EXCEPT ![c].unsubs = @ + 1]
    /\ UNCHANGED <<hubLock, hubCall, published, upstreams, receivers>>

\* ChannelService::unsubscribe
unsubscribe(c) ==
    /\ hubLock = 0
    /\ subscribers' = [subscribers EXCEPT ![c] = 0]
    /\ hubStats' = [hubStats EXCEPT ![c].unsubs = @ + 1]
    /\ UNCHANGED <<hubLock, hubCall, published, upstreams, receivers>>

\* As broadcast, with the payload also sent into the channel's local broadcast.
broadcast_and_local(c, event, ok) ==
    /\ IF ok
       THEN /\ published' = [published EXCEPT
                   ![c] = Append(@, WsEventJson(event, c, Len(@) + 1))]
            /\ upstreams' =
                  IF subscribers[c] = 0 THEN upstreams
                  ELSE [upstreams EXCEPT ![subscribers[c]].hlog =
                          Append(@, WsEventJson(event, c, Len(published[c]) + 1))]
       ELSE UNCHANGED <<published, upstreams>>
    /\ UNCHANGED <<subscribers, hubLock, hubCall, hubStats, receivers>>

\* ChannelService::broadcast over RedisRepository::publish: the n-th payload of
\* a channel carries data n. A transport error publishes nothing.
broadcast(c, event, ok) ==
    /\ IF ok
       THEN published' = [published EXCEPT
                ![c] = Append(@, WsEventJson(event, c, Len(@) + 1))]
       ELSE UNCHANGED published
    /\ UNCHANGED <<subscribers, hubLock, hubCall, hubStats, upstreams, receivers>>

\* The task subscribe_to_channel spawns: the next message of the bus stream is
\* sent into the adapter's broadcast (dropped when its receiver is gone).
repo_task_step(u) ==
    LET up == upstreams[u]
        i == up.from + up.taken + 1
    IN  /\ up.open
        /\ i <= Len(published[up.channel])
        /\ upstreams' = [upstreams EXCEPT
              ![u].taken = @ + 1,
              ![u].abuf = IF up.fwdAlive THEN Append(@, published[up.channel][i])
                          ELSE @]
        /\ UNCHANGED <<subscribers, hubLock, hubCall, hubStats, published, receivers>>

\* The bus connection of an adapter subscription ends (an unrecoverable
\* transport error): stream.next() yields None and the task returns.
stream_ends(u) ==
    /\ upstreams[u].open
    /\ upstreams' = [upstreams EXCEPT ![u].open = FALSE]
    /\ UNCHANGED <<subscribers, hubLock, hubCall, hubStats, published, receivers>>

\* The forwarder ChannelService::subscribe spawns:
\*   while let Ok(msg) = redis_rx.recv().await { let _ = tx_clone.send(msg); }
\* recv is Err(Lagged) once more than 64 payloads are unread, and Err(Closed)
\* once the adapter's sender is dropped and nothing is unread.
hub_forwarder_step(u) ==
    LET up == upstreams[u]
        L == Len(up.abuf)
    IN  /\ up.fwdAlive
        /\ IF up.fwdNext < L - BROADCAST_CAPACITY
           THEN upstreams' = [upstreams EXCEPT ![u].fwdAlive = FALSE]
           ELSE IF up.fwdNext < L
           THEN upstreams' = [upstreams EXCEPT
                    ![u].fwdNext = @ + 1,
                    ![u].hlog = Append(@, up.abuf[up.fwdNext + 1])]
           ELSE /\ ~up.open
                /\ upstreams' = [upstreams EXCEPT ![u].fwdAlive = FALSE]
        /\ UNCHANGED <<subscribers, hubLock, hubCall, hubStats, published, receivers>>

\* The senders of Hub broadcast u: the map's entry and the forwarder's clone.
SendersAlive(u) == subscribers[upstreams[u].channel] = u \/ upstreams[u].fwdAlive

\* A task reading a Hub receiver (the Forwarder Task of handlers/ws.rs):
\*   while let Ok(payload) = channel_rx.recv().await { ... }
receiver_step(r) ==
    LET rx == receivers[r]
        L == Len(upstreams[rx.bc].hlog)
    IN  /\ rx.live
        /\ IF rx.next < L - BROADCAST_CAPACITY
           THEN receivers' = [receivers EXCEPT ![r].live = FALSE,
                                               ![r].exit = "lagged"]
           ELSE IF rx.next < L
           THEN receivers' = [receivers EXCEPT
                    ![r].next = @ + 1,
                    ![r].got = Append(@, upstreams[rx.bc].hlog[rx.next + 1])]
           ELSE /\ ~SendersAlive(rx.bc)
                /\ receivers' = [receivers EXCEPT ![r].live = FALSE,
                                                  ![r].exit = "closed"]
        /\ UNCHANGED <<subscribers, hubLock, hubCall, hubStats, published, upstreams>>

----------------------------------------------------------------------------
(* The Presence Roster (services/presence.rs over repositories/redis_repo.rs) *)

NSessions == 2      \* WebSocket connections in a run

MaxFrames == 2      \* client frames handled in a run

Sessions == 1 .. NSessions

\* generate_socket_id: format!("{}.{}", process id, uuid), new for each socket
generate_socket_id(s) == <<"7", ".", ToString(s)>>

\* The user a client names in its channel_data
UserOf(s) == <<"u", ToString(s)>>

ANONYMOUS == <<"a", "n", "o", "n", "y", "m", "o", "u", "s">>

\* A serde_json::Value sent as channel_data: an object with or without a
\* string field "user_id".
JsonObject(uid) == [user_id |-> uid]

NoData == [some |-> FALSE, val |-> JsonObject(None)]

USER_ID_KEY == <<"{", "\"", "u", "s", "e", "r", "_", "i", "d", "\"", ":", "\"">>

\* serde_json::Value::to_string
JsonToString(v) ==
    IF v.user_id.some THEN USER_ID_KEY \o v.user_id.val \o <<"\"", "}">>
    ELSE EMPTY_OBJECT

\* data.channel_data.as_ref().map(|v| v.to_string())
channel_data_string(data) ==
    IF data.some THEN Some(JsonToString(data.val)) ELSE None

\* data.channel_data ... get("user_id") ... as_str().unwrap_or("anonymous")
user_id_of(data) ==
    IF data.some /\ data.val.user_id.some THEN data.val.user_id.val ELSE ANONYMOUS

EmptyHash == [x \in {} |-> 0]

\* HSET key field value
hset(h, field, value) ==
    [x \in DOMAIN h \cup {field} |-> IF x = field THEN value ELSE h[x]]

\* HDEL key field
hdel(h, field) == [x \in DOMAIN h \ {field} |-> h[x]]

\* How a Roster operation on the bus can end: no connection, the first command
\* fails, the second command fails after the first took effect, or both succeed.
BusOutcomes == {"no_connection", "first_fails", "second_fails", "ok"}

\* RedisRepository::presence_add: SADD then HSET, each propagated by `?`
presence_add(channel, socket_id, member_data, outcome) ==
    /\ rosterSet' = IF outcome \in {"second_fails", "ok"}
                    THEN [rosterSet EXCEPT ![channel] = @ \cup {socket_id}]
                    ELSE rosterSet
    /\ rosterHash' = IF outcome = "ok"
                     THEN [rosterHash EXCEPT ![channel] = hset(@, socket_id, member_data)]
                     ELSE rosterHash

\* As presence_remove, without the HDEL.
presence_remove_set_only(channel, socket_id, outcome) ==
    /\ rosterSet' = IF outcome \in {"second_fails", "ok"}
                    THEN [rosterSet EXCEPT ![channel] = @ \ {socket_id}]
                    ELSE rosterSet
    /\ rosterHash' = rosterHash

\* RedisRepository::presence_remove: SREM then HDEL, each propagated by `?`
presence_remove(channel, socket_id, outcome) ==
    /\ rosterSet' = IF outcome \in {"second_fails", "ok"}
                    THEN [rosterSet EXCEPT ![channel] = @ \ {socket_id}]
                    ELSE rosterSet
    /\ rosterHash' = IF outcome = "ok"
                     THEN [rosterHash EXCEPT ![channel] = hdel(@, socket_id)]
                     ELSE rosterHash

\* As add_member, with the member stored under its user id.
add_member_by_user(channel, socket_id, user_id, user_info, outcome) ==
    presence_add(channel, user_id,
                 [user_id |-> user_id, user_info |-> user_info,
                  socket_id |-> socket_id],
                 outcome)

\* PresenceService::add_member: the member is serialised and stored under the
\* socket id.
add_member(channel, socket_id, user_id, user_info, outcome) ==
    presence_add(channel, socket_id,
                 [user_id |-> user_id, user_info |-> user_info,
                  socket_id |-> socket_id],
                 outcome)

\* PresenceService::remove_member
remove_member(channel, socket_id, outcome) ==
    presence_remove(channel, socket_id, outcome)

\* PresenceService::list_members: the user ids of the entries HGETALL returns
\* (every stored entry parses), and their number.
list_members_ids(channel) ==
    {rosterHash[channel][x].user_id : x \in DOMAIN rosterHash[channel]}

list_members_len(channel) == Cardinality(DOMAIN rosterHash[channel])

\* PresenceService::list_members: every entry HGETALL returns, parsed and
\* reduced to a PresenceUser. The entries are indexed here by the hash field
\* they come from; the Vec the code returns carries no such index.
list_members(channel) ==
    [x \in DOMAIN rosterHash[channel] |->
        [user_id |-> rosterHash[channel][x].user_id,
         user_info |-> rosterHash[channel][x].user_info]]

\* The channel and the users of the Roster calls made by any task
RosterChannels == {PRESENCE_A}

RosterUsers == {UserOf(s) : s \in Sessions}

NoMemberCall == [op |-> "none", user_id |-> <<>>]

NoListCall == [made |-> FALSE, turn |-> 0, channel |-> <<>>, ok |-> FALSE,
               users |-> EmptyHash]

\* A call of PresenceService::add_member for socket s; memberLog keeps what the
\* call was and whether it returned Ok.
AddMember(c, s, u, outcome) ==
    /\ add_member(c, generate_socket_id(s), u, Some(JsonObject(Some(u))), outcome)
    /\ memberLog' = [memberLog EXCEPT ![c][s] =
          [op |-> IF outcome = "ok" THEN "add" ELSE "add_failed", user_id |-> u]]
    /\ UNCHANGED <<classifyCall, listCall, httpVars, authVars, hubVars, sess, audit>>

\* A call of PresenceService::remove_member for socket s
RemoveMember(c, s, outcome) ==
    /\ remove_member(c, generate_socket_id(s), outcome)
    /\ memberLog' = [memberLog EXCEPT ![c][s] =
          [op |-> IF outcome = "ok" THEN "remove" ELSE "remove_failed",
           user_id |-> <<>>]]
    /\ UNCHANGED <<classifyCall, listCall, httpVars, authVars, hubVars, sess, audit>>

\* A call of PresenceService::list_members; HGETALL can fail.
ListMembers(c, ok) ==
    /\ listCall' = [made |-> TRUE, turn |-> 1 - listCall.turn, channel |-> c,
                    ok |-> ok,
                    users |-> IF ok THEN list_members(c) ELSE EmptyHash]
    /\ UNCHANGED <<classifyCall, memberLog, httpVars, authVars, hubVars, sessVars>>

----------------------------------------------------------------------------
(* The audit store (db/repositories.rs) *)

\* The domain an API key resolves to at the upgrade; none without a key.
NoDomain == [some |-> FALSE, val |-> 0]

Domains == {NoDomain, [some |-> TRUE, val |-> 1]}

\* How the database calls of one frame can end: the first statement fails,
\* the second fails after the first took effect, or all succeed.
DbOutcomes == {"first_fails", "second_fails", "ok"}

NoAudit == [channels |-> {}, connections |-> <<>>]

\* channel_ensure: INSERT ... ON CONFLICT DO NOTHING
channel_ensure(a, name, domain_id) ==
    [a EXCEPT !.channels = @ \cup {<<name, domain_id>>}]

\* ws_connection_insert: a new row with status 'connected'
ws_connection_insert(a, channel_name, domain_id, socket_id, connected_user) ==
    [a EXCEPT !.connections = Append(@,
        [channel_name |-> channel_name, domain_id |-> domain_id,
         socket_id |-> socket_id, connected_user |-> connected_user,
         status |-> "connected"])]

\* ws_connection_mark_disconnected: every connected row of the socket
ws_connection_mark_disconnected(a, socket_id) ==
    [a EXCEPT !.connections =
        [i \in 1 .. Len(a.connections) |->
            IF a.connections[i].socket_id = socket_id
               /\ a.connections[i].status = "connected"
            THEN [a.connections[i] EXCEPT !.status = "disconnected"]
            ELSE a.connections[i]]]

\* ws_connection_mark_disconnected_by_channel
ws_connection_mark_disconnected_by_channel(a, socket_id, channel_name) ==
    [a EXCEPT !.connections =
        [i \in 1 .. Len(a.connections) |->
            IF a.connections[i].socket_id = socket_id
               /\ a.connections[i].channel_name = channel_name
               /\ a.connections[i].status = "connected"
            THEN [a.connections[i] EXCEPT !.status = "disconnected"]
            ELSE a.connections[i]]]

----------------------------------------------------------------------------
(* The domains table (db/repositories.rs) and the HTTP trigger              *)
(* (handlers/http.rs)                                                        *)

\* Config.app_key, the legacy key of AppState
app_key == <<"k", "e", "y">>

NK_1 == <<"n", "k", "_", "1">>

NK_2 == <<"n", "k", "_", "2">>

NK_9 == <<"n", "k", "_", "9">>

HOST_A == <<"a", ".", "i", "o">>

WILD_A == <<"*", ".", "a", ".", "i", "o">>

DomainRow(id, domain_name, key, is_active) ==
    [id |-> id, domain_name |-> domain_name, key |-> key, is_active |-> is_active]

\* Two registered domains, each with its key
DomainRows == {DomainRow(1, HOST_A, NK_1, TRUE), DomainRow(2, WILD_A, NK_2, TRUE)}

DomainIds == {r.id : r \in DomainRows}

NoRow == [some |-> FALSE, val |-> DomainRow(0, <<>>, <<>>, FALSE)]

\* domain_set_active: UPDATE domains SET is_active = $1 WHERE id = $2
domain_set_active(table, id, is_active) ==
    {IF r.id = id THEN [r EXCEPT !.is_active = is_active] ELSE r : r \in table}

\* domain_delete: DELETE FROM domains WHERE id = $1
domain_delete(table, id) == {r \in table : r.id # id}

\* domain_find_by_key: SELECT ... WHERE key = $1 AND is_active = true, with
\* fetch_optional; a failed statement is an Err.
domain_find_by_key(table, key, db_ok) ==
    LET rows == {r \in table : r.key = key /\ r.is_active}
    IN  IF ~db_ok THEN [ok |-> FALSE, val |-> NoRow]
        ELSE IF rows = {} THEN [ok |-> TRUE, val |-> NoRow]
        ELSE [ok |-> TRUE, val |-> [some |-> TRUE, val |-> CHOOSE r \in rows : TRUE]]

\* As validate_api_key, accepting every key that is not empty.
validate_api_key_any_key(table, legacy_app_key, key, db_ok) ==
    IF key = <<>> THEN "Auth" ELSE "Ok"

\* validate_api_key: "Ok", or the AppError it returns
validate_api_key(table, legacy_app_key, key, db_ok) ==
    IF key = <<>> THEN "Auth"
    ELSE IF key = legacy_app_key THEN "Ok"
    ELSE LET row == domain_find_by_key(table, key, db_ok)
         IN  IF ~row.ok THEN "Db"
             ELSE IF row.val.some /\ row.val.val.is_active THEN "Ok"
             ELSE "Auth"

\* validate_api_key reaches the domains table only with a key that is neither
\* empty nor the legacy key.
LooksUp(key) == key # <<>> /\ key # app_key

\* AppError::into_response
status_of(err) ==
    IF err = "Auth" THEN 401
    ELSE IF err = "Db" THEN 500
    ELSE IF err = "Redis" THEN 503
    ELSE 200

\* Redis PUBLISH returns the number of subscriptions that got the message:
\* here, the open bus subscriptions of this process on the channel.
publish_count(c) ==
    Cardinality({u \in 1 .. Len(upstreams) :
                    upstreams[u].channel = c /\ upstreams[u].open})

\* The x-app-key headers of the requests: none, empty, the legacy key, the
\* keys of the two domains and a key of no domain
HttpHeaders == {None, Some(<<>>), Some(app_key), Some(NK_1), Some(NK_2), Some(NK_9)}

NoHttpCall ==
    [made |-> FALSE, turn |-> 0, header |-> None, channel |-> <<>>,
     event |-> "none", status |-> 0, subscriber_count |-> 0]

\* A dashboard user switches a domain on or off.
DomainSetActive(id, is_active) ==
    /\ domains' = domain_set_active(domains, id, is_active)
    /\ UNCHANGED <<classifyCall, memberLog, listCall, httpCall, originCall,
                   upgradeCall, authVars, hubVars, sessVars>>

\* A dashboard user deletes a domain.
DomainDelete(id) ==
    /\ domains' = domain_delete(domains, id)
    /\ UNCHANGED <<classifyCall, memberLog, listCall, httpCall, originCall,
                   upgradeCall, authVars, hubVars, sessVars>>

\* POST /api/broadcast with a well-formed body: the key is validated, then
\* ChannelService::broadcast is called and its count returned; every error is
\* returned as its status.
HttpBroadcast(header, c, e, db_ok, bus_ok) ==
    LET key == unwrap_or(header, <<>>)
        v == validate_api_key(domains, app_key, key, db_ok)
    IN  /\ LooksUp(key) \/ db_ok
        /\ IF v = "Ok"
           THEN broadcast(c, e, bus_ok)
           ELSE bus_ok /\ UNCHANGED hubVars
        /\ httpCall' =
              [made |-> TRUE, turn |-> 1 - httpCall.turn, header |-> header,
               channel |-> c, event |-> e,
               status |-> IF v # "Ok" THEN status_of(v)
                          ELSE IF bus_ok THEN status_of("Ok") ELSE status_of("Redis"),
               subscriber_count |-> IF v = "Ok" /\ bus_ok THEN publish_count(c) ELSE 0]
        /\ UNCHANGED <<classifyCall, memberLog, listCall, domains, originCall,
                       upgradeCall, authVars, sessVars>>

----------------------------------------------------------------------------

(* Origin matching (handlers/ws.rs) *)

SLASH == "/"

STAR == "*"

DOT == "."

SPACE == " "

HTTPS_PREFIX == <<"h", "t", "t", "p", "s", ":", "/", "/">>

HTTP_PREFIX == <<"h", "t", "t", "p", ":", "/", "/">>

\* char::to_lowercase on the letters of the names used here
lower(ch) ==
    CASE ch = "A" -> "a" [] ch = "B" -> "b" [] ch = "H" -> "h" [] ch = "I" -> "i"
      [] ch = "O" -> "o" [] ch = "P" -> "p" [] ch = "S" -> "s" [] ch = "T" -> "t"
      [] OTHER -> ch

\* str::to_lowercase
to_lowercase(s) == [i \in 1 .. Len(s) |-> lower(s[i])]

RECURSIVE trim_start_matches(_, _)
\* str::trim_start_matches(ch): every leading ch is removed
trim_start_matches(s, ch) ==
    IF s # <<>> /\ Head(s) = ch THEN trim_start_matches(Tail(s), ch) ELSE s

RECURSIVE trim_end_matches(_, _)
trim_end_matches(s, ch) ==
    IF s # <<>> /\ s[Len(s)] = ch
    THEN trim_end_matches(SubSeq(s, 1, Len(s) - 1), ch) ELSE s

\* str::trim
trim(s) == trim_end_matches(trim_start_matches(s, SPACE), SPACE)

\* str::ends_with
ends_with(s, suffix) ==
    Len(s) >= Len(suffix) /\ SubSeq(s, Len(s) - Len(suffix) + 1, Len(s)) = suffix

\* str::strip_prefix
strip_prefix(s, prefix) ==
    IF starts_with(s, prefix) THEN Some(SubSeq(s, Len(prefix) + 1, Len(s))) ELSE None

RECURSIVE split_next(_, _)
\* str::split(ch).next(): the text before the first ch
split_next(s, ch) ==
    IF s = <<>> \/ Head(s) = ch THEN <<>> ELSE <<Head(s)>> \o split_next(Tail(s), ch)

\* parse_origin_host
parse_origin_host(origin) ==
    LET https == strip_prefix(origin, HTTPS_PREFIX)
        u == IF https.some THEN https ELSE strip_prefix(origin, HTTP_PREFIX)
    IN  IF ~u.some THEN None ELSE Some(to_lowercase(split_next(u.val, SLASH)))

\* As domain_matches, a wildcard pattern matching only the hosts below its
\* domain (those that end with "." and the domain).
domain_matches_below_only(allowed, origin_host) ==
    LET a == to_lowercase(trim(allowed))
    IN  IF starts_with(a, <<STAR>>)
        THEN ends_with(origin_host,
                       <<DOT>> \o trim_start_matches(trim_start_matches(a, STAR), DOT))
        ELSE a = origin_host

\* domain_matches
domain_matches(allowed, origin_host) ==
    LET a == to_lowercase(trim(allowed))
    IN  IF starts_with(a, <<STAR>>)
        THEN ends_with(origin_host,
                       trim_start_matches(trim_start_matches(a, STAR), DOT))
        ELSE a = origin_host

\* create_domain / domain_create: the name is stored trimmed and in lowercase.
stored_domain_name(text) == to_lowercase(trim(text))

\* The domain names dashboard users type
DomainTexts ==
    {<<"a", ".", "i", "o">>,
     <<" ", "A", ".", "i", "o", " ">>,
     <<"*", ".", "a", ".", "i", "o">>,
     <<"*", ".", "A", ".", "I", "O", " ">>,
     <<"b", ".", "a", ".", "i", "o">>,
     <<"*", ".", "i", "o">>,
     <<"i", "o">>,
     <<"*", ".", "b", ".", "a", ".", "i", "o">>}

\* The domain patterns of the domains table
OriginPatterns == {stored_domain_name(text) : text \in DomainTexts}

\* The hosts domain_matches is asked about
OriginHosts ==
    {<<"a", ".", "i", "o">>,
     <<"b", ".", "a", ".", "i", "o">>,
     <<"x", "a", ".", "i", "o">>,
     <<"i", "o">>,
     <<"a", ".", "i", "o", ".", "x">>,
     <<"A", ".", "i", "o">>,
     <<>>,
     <<"c", ".", "b", ".", "a", ".", "i", "o">>,
     <<"a", ".", "i">>,
     <<"b", ".", "i", "o">>,
     <<"a", ".", "i", "o", ":", "8", "0">>,
     <<"x", "b", ".", "a", ".", "i", "o">>}

\* The Origin headers of the requests
Origins ==
    {<<"h", "t", "t", "p", "s", ":", "/", "/", "a", ".", "i", "o">>,
     <<"h", "t", "t", "p", ":", "/", "/", "a", ".", "i", "o">>,
     <<"h", "t", "t", "p", "s", ":", "/", "/", "B", ".", "A", ".", "i", "o", "/", "p", "/", "q">>,
     <<"h", "t", "t", "p", ":", "/", "/", "a", ".", "i", "o", ":", "8", "0", "/">>,
     <<"a", ".", "i", "o">>,
     <<>>,
     <<"f", "t", "p", ":", "/", "/", "a", ".", "i", "o">>,
     <<"h", "t", "t", "p", "s", ":", "/", "/">>,
     <<"h", "t", "t", "p", ":", "/", "/", "/", "x">>,
     <<"H", "T", "T", "P", "S", ":", "/", "/", "a", ".", "i", "o">>,
     <<"h", "t", "t", "p", "s", ":", "/", "a", ".", "i", "o">>,
     <<"/", "/", "a", ".", "i", "o">>,
     <<"h", "t", "t", "p", "s", ":", "/", "/", "x", "a", ".", "i", "o", "/", "h", "t", "t", "p", "s", ":", "/", "/", "a", ".", "i", "o">>,
     <<"h", "t", "t", "p", ":", "/", "/", "b", ".", "a", ".", "i", "o">>}

NoOriginCall ==
    [op |-> "none", origin |-> <<>>, text |-> <<>>, pattern |-> <<>>,
     host |-> None, matches |-> FALSE]

\* A call of parse_origin_host
ParseOriginHost(origin) ==
    /\ originCall' = [op |-> "parse", origin |-> origin, text |-> <<>>,
                      pattern |-> <<>>, host |-> parse_origin_host(origin),
                      matches |-> FALSE]
    /\ UNCHANGED <<classifyCall, memberLog, listCall, domains, httpCall,
                   upgradeCall, authVars, hubVars, sessVars>>

\* A call of domain_matches with the stored name of a domain
DomainMatches(text, host) ==
    /\ originCall' = [op |-> "match", origin |-> <<>>, text |-> text,
                      pattern |-> stored_domain_name(text), host |-> Some(host),
                      matches |-> domain_matches(stored_domain_name(text), host)]
    /\ UNCHANGED <<classifyCall, memberLog, listCall, domains, httpCall,
                   upgradeCall, authVars, hubVars, sessVars>>

----------------------------------------------------------------------------

(* The WebSocket session (handlers/ws.rs, handle_socket) *)

\* The channels clients name in their frames
SessChannels == {ROOM, PRIVATE_A, PRESENCE_A}

\* The channel_data a client sends with a Subscribe
SessData(s) == {NoData, Some(JsonObject(None)), Some(JsonObject(Some(UserOf(s))))}

\* The auth a client sends with a Subscribe: none, text that is no digest, or
\* what the application's auth endpoint signs for a socket, this one or
\* another, with the channel and data.
SessAuthOffers(s, c, data) ==
    {NoAuth, [some |-> TRUE, val |-> WrongAuth]}
      \cup {[some |-> TRUE,
             val |-> sign_channel(generate_socket_id(t), c, channel_data_string(data))] :
            t \in Sessions}

\* A text frame of a client: {"event": ..., "data": {"channel": ..., "auth":
\* ..., "channel_data": ...}}
ClientText(event, c, auth, data) ==
    [json |-> TRUE, event |-> event, has_data |-> TRUE, channel |-> c,
     auth |-> auth, channel_data |-> data]

\* A text frame with no "data": {"event": ...}
BareText(event) ==
    [json |-> TRUE, event |-> event, has_data |-> FALSE, channel |-> <<>>,
     auth |-> NoAuth, channel_data |-> NoData]

\* A text frame that is not JSON
NotJsonText ==
    [json |-> FALSE, event |-> "none", has_data |-> FALSE, channel |-> <<>>,
     auth |-> NoAuth, channel_data |-> NoData]

\* The event tags of the Pusher protocol
PusherTags == {"pusher:subscribe", "pusher:unsubscribe", "pusher:ping"}

\* The text frames clients send
ClientTexts(s) ==
    UNION {UNION {{ClientText("subscribe", c, auth, data) :
                       auth \in SessAuthOffers(s, c, data)} :
                  data \in SessData(s)} :
           c \in SessChannels}
      \cup {ClientText("unsubscribe", c, NoAuth, NoData) : c \in SessChannels}
      \cup {ClientText("ping", <<>>, NoAuth, NoData)}
      \cup {ClientText(t, ROOM, NoAuth, NoData) : t \in PusherTags}
      \cup {BareText("subscribe"), BareText("unsubscribe"), BareText("ping"),
            NotJsonText}

\* As from_str, with the tags of the Pusher protocol parsed as well.
from_str_pusher_tags(text) ==
    IF ~text.json THEN "Err"
    ELSE IF text.event \in {"subscribe", "pusher:subscribe"} /\ text.has_data
    THEN "Subscribe"
    ELSE IF text.event \in {"unsubscribe", "pusher:unsubscribe"} /\ text.has_data
    THEN "Unsubscribe"
    ELSE IF text.event \in {"ping", "pusher:ping"} THEN "Ping"
    ELSE "Err"

\* serde_json::from_str::<ClientMessage>: the enum is tagged by "event" with
\* the variant names in snake_case; Subscribe and Unsubscribe need their
\* "data"; any other tag, and text that is not JSON, is an error.
from_str(text) ==
    IF ~text.json THEN "Err"
    ELSE IF text.event = "subscribe" /\ text.has_data THEN "Subscribe"
    ELSE IF text.event = "unsubscribe" /\ text.has_data THEN "Unsubscribe"
    ELSE IF text.event = "ping" THEN "Ping"
    ELSE "Err"

\* The bus outcomes a text frame can meet: only the Unsubscribe of a Presence
\* channel makes a bus call within its own step.
TextBusOutcomes(text) ==
    IF from_str(text) = "Unsubscribe" /\ from_name(text.channel) = "Presence"
    THEN BusOutcomes ELSE {"ok"}

NoPending == [channel |-> <<>>, data |-> NoData, rx |-> 0]

\* handle_socket's locals: where the task is (state and pc), domain_id, the
\* frame being handled (pending), subscribed_channels, the receivers of the
\* Forwarder Tasks spawned (forwarders), what the outbound queue tx accepted
\* (queue), how much of it the Writer Task has taken (taken), what was written
\* to the socket (wire), the Writer Task (writer), the channels the closing
\* loop has yet to visit (todo) and the remove_member calls it has made
\* (closeRemoved), and the audit-store statements it has issued (dbCalls).
NewSession ==
    [state |-> "Connecting", pc |-> "idle", domain_id |-> NoDomain,
     pending |-> NoPending, subscribed |-> {}, forwarders |-> {},
     queue |-> <<>>, taken |-> 0, wire |-> <<>>, writer |-> "none",
     frames |-> 0, todo |-> {}, closeRemoved |-> <<>>, dbCalls |-> 0]

ConnectionEstablishedFrame(socket_id) ==
    [event |-> "connection_established", socket_id |-> socket_id]

AuthFailedFrame ==
    [event |-> "pusher:error", message |-> "Auth failed for channel", code |-> 4009]

SubscribeFailedFrame ==
    [event |-> "pusher:error", message |-> "Subscribe failed", code |-> 4009]

SubOkFrame(c) ==
    [event |-> "pusher_internal:subscription_succeeded", channel |-> c]

SubOkPresenceFrame(c, ids, count) ==
    [event |-> "pusher_internal:subscription_succeeded", channel |-> c,
     ids |-> ids, count |-> count]

PongFrame == [event |-> "pusher:pong"]

\* tx.send(frame) on the unbounded queue: it fails, and the frame is dropped,
\* once the Writer Task has gone with the queue's receiver.
tx_send(s, frame) ==
    IF sess[s].writer = "running" THEN Append(sess[s].queue, frame)
    ELSE sess[s].queue

\* The session waits in receiver.next() for a client frame.
BetweenFrames(s) == sess[s].state = "Established" /\ sess[s].pc = "idle"

\* Without a domain id no database call is made.
DbOutcomeMatters(s, db) == sess[s].domain_id.some \/ db = "ok"

SessDbOutcomes(s) == IF sess[s].domain_id.some THEN DbOutcomes ELSE {"ok"}

\* data.channel_data ... get("user_id") ... as_str(), for the audit row
user_str(data) ==
    IF data.some /\ data.val.user_id.some THEN Some(data.val.user_id.val) ELSE None

\* As handshake, going on to Established whether or not the write succeeds.
handshake_ignoring_error(s, domain_id, sent) ==
    /\ sess[s].state = "Connecting"
    /\ sess' = [sess EXCEPT
          ![s].state = "Established",
          ![s].domain_id = domain_id,
          ![s].wire = IF sent
                      THEN <<ConnectionEstablishedFrame(generate_socket_id(s))>>
                      ELSE <<>>,
          ![s].writer = "running"]
    /\ UNCHANGED <<callVars, authVars, hubVars, rosterVars, audit>>

\* The handshake of handle_socket(state, socket, domain_id):
\* connection_established is written to the socket; if the write fails the
\* task returns at once, otherwise the Writer Task is spawned.
handshake(s, domain_id, sent) ==
    /\ sess[s].state = "Connecting"
    /\ sess' = [sess EXCEPT
          ![s].state = IF sent THEN "Established" ELSE "Closed",
          ![s].domain_id = domain_id,
          ![s].wire = IF sent
                      THEN <<ConnectionEstablishedFrame(generate_socket_id(s))>>
                      ELSE <<>>,
          ![s].writer = IF sent THEN "running" ELSE "none"]
    /\ UNCHANGED <<callVars, authVars, hubVars, rosterVars, audit>>

\* As writer_step, taking the newest queued string instead of the oldest.
writer_step_newest_first(s, sent) ==
    /\ sess[s].writer = "running"
    /\ sess[s].taken < Len(sess[s].queue)
    /\ sess' = [sess EXCEPT
          ![s].taken = @ + 1,
          ![s].wire = IF sent THEN Append(@, sess[s].queue[Len(sess[s].queue)]) ELSE @,
          ![s].writer = IF sent THEN "running" ELSE "failed"]
    /\ UNCHANGED <<callVars, authVars, hubVars, rosterVars, audit>>

\* The Writer Task: the next queued string is written to the socket; a failed
\* write ends the task.
writer_step(s, sent) ==
    /\ sess[s].writer = "running"
    /\ sess[s].taken < Len(sess[s].queue)
    /\ sess' = [sess EXCEPT
          ![s].taken = @ + 1,
          ![s].wire = IF sent THEN Append(@, sess[s].queue[sess[s].taken + 1]) ELSE @,
          ![s].writer = IF sent THEN "running" ELSE "failed"]
    /\ UNCHANGED <<callVars, authVars, hubVars, rosterVars, audit>>

\* As subscribed_ok, with no Forwarder Task for a channel that is in
\* subscribed_channels already.
subscribed_ok_once(s, c, data, rx) ==
    IF from_name(c) = "Presence"
    THEN [sess EXCEPT ![s].subscribed = @ \cup {c},
                      ![s].pc = "add_member",
                      ![s].pending = [channel |-> c, data |-> data, rx |-> rx]]
    ELSE [sess EXCEPT ![s].subscribed = @ \cup {c},
                      ![s].queue = tx_send(s, SubOkFrame(c)),
                      ![s].forwarders = IF c \in sess[s].subscribed THEN @
                                        ELSE @ \cup {rx},
                      ![s].pc = "idle",
                      ![s].pending = NoPending]

\* The Subscribe arm once channel_service.subscribe returned Ok(channel_rx),
\* up to its next bus call: the channel is inserted; a Presence channel goes
\* on to add_member, any other gets its sub_ok and its Forwarder Task.
subscribed_ok(s, c, data, rx) ==
    IF from_name(c) = "Presence"
    THEN [sess EXCEPT ![s].subscribed = @ \cup {c},
                      ![s].pc = "add_member",
                      ![s].pending = [channel |-> c, data |-> data, rx |-> rx]]
    ELSE [sess EXCEPT ![s].subscribed = @ \cup {c},
                      ![s].queue = tx_send(s, SubOkFrame(c)),
                      ![s].forwarders = @ \cup {rx},
                      ![s].pc = "idle",
                      ![s].pending = NoPending]

\* The statements the Subscribe arm issues: none without a domain id, else
\* channel_ensure and, if it succeeds, ws_connection_insert.
subscribe_statements(s, db) ==
    IF ~sess[s].domain_id.some THEN 0 ELSE IF db = "first_fails" THEN 1 ELSE 2

\* The statement the Unsubscribe arm and the closing issue with a domain id
domain_statements(s) == IF sess[s].domain_id.some THEN 1 ELSE 0

\* The audit calls of the Subscribe arm: with a domain id, channel_ensure and,
\* if it succeeds, ws_connection_insert with its result dropped.
audit_subscribed(s, c, data, db) ==
    IF ~sess[s].domain_id.some \/ db = "first_fails" THEN audit
    ELSE IF db = "second_fails"
    THEN channel_ensure(audit, c, sess[s].domain_id.val)
    ELSE ws_connection_insert(channel_ensure(audit, c, sess[s].domain_id.val),
                              c, sess[s].domain_id.val, generate_socket_id(s),
                              user_str(data))

\* As subscribe_frame, without the auth check.
subscribe_frame_unchecked(s, c, auth, data, db) ==
    /\ BetweenFrames(s)
    /\ subscribe_enter(s, c)
    /\ IF subscribers[c] # 0
       THEN /\ DbOutcomeMatters(s, db)
            /\ sess' = [subscribed_ok(s, c, data, Len(receivers) + 1)
                          EXCEPT ![s].frames = @ + 1,
                                 ![s].dbCalls = @ + subscribe_statements(s, db)]
            /\ audit' = audit_subscribed(s, c, data, db)
       ELSE /\ db = "ok"
            /\ sess' = [sess EXCEPT
                  ![s].pc = "adapter",
                  ![s].pending = [channel |-> c, data |-> data, rx |-> 0],
                  ![s].frames = @ + 1]
            /\ UNCHANGED audit
    /\ UNCHANGED <<callVars, authVars, rosterVars>>

\* As subscribe_frame, with an auth signed for any socket accepted.
subscribe_frame_any_socket(s, c, auth, data, db) ==
    LET auth_ok == \E t \in Sessions :
                      verify_channel_auth(c, generate_socket_id(t), auth,
                                          channel_data_string(data)) = "Ok"
    IN  /\ BetweenFrames(s)
        /\ IF is_private(from_name(c)) /\ ~auth_ok
           THEN /\ db = "ok"
                /\ sess' = [sess EXCEPT ![s].queue = tx_send(s, AuthFailedFrame),
                                        ![s].frames = @ + 1]
                /\ UNCHANGED <<hubVars, audit>>
           ELSE /\ subscribe_enter(s, c)
                /\ IF subscribers[c] # 0
                   THEN /\ DbOutcomeMatters(s, db)
                        /\ sess' = [subscribed_ok(s, c, data, Len(receivers) + 1)
                                      EXCEPT ![s].frames = @ + 1,
                                             ![s].dbCalls =
                                                 @ + subscribe_statements(s, db)]
                        /\ audit' = audit_subscribed(s, c, data, db)
                   ELSE /\ db = "ok"
                        /\ sess' = [sess EXCEPT
                              ![s].pc = "adapter",
                              ![s].pending = [channel |-> c, data |-> data,
                                              rx |-> 0],
                              ![s].frames = @ + 1]
                        /\ UNCHANGED audit
        /\ UNCHANGED <<callVars, authVars, rosterVars>>

\* A Subscribe frame: the auth check, then ChannelService::subscribe up to its
\* first suspension.
subscribe_frame(s, c, auth, data, db) ==
    LET auth_ok == verify_channel_auth(c, generate_socket_id(s), auth,
                                       channel_data_string(data)) = "Ok"
    IN  /\ BetweenFrames(s)
        /\ IF is_private(from_name(c)) /\ ~auth_ok
           THEN /\ db = "ok"
                /\ sess' = [sess EXCEPT ![s].queue = tx_send(s, AuthFailedFrame),
                                        ![s].frames = @ + 1]
                /\ UNCHANGED <<hubVars, audit>>
           ELSE /\ subscribe_enter(s, c)
                /\ IF subscribers[c] # 0
                   THEN /\ DbOutcomeMatters(s, db)
                        /\ sess' = [subscribed_ok(s, c, data, Len(receivers) + 1)
                                      EXCEPT ![s].frames = @ + 1,
                                             ![s].dbCalls =
                                                 @ + subscribe_statements(s, db)]
                        /\ audit' = audit_subscribed(s, c, data, db)
                   ELSE /\ db = "ok"
                        /\ sess' = [sess EXCEPT
                              ![s].pc = "adapter",
                              ![s].pending = [channel |-> c, data |-> data,
                                              rx |-> 0],
                              ![s].frames = @ + 1]
                        /\ UNCHANGED audit
        /\ UNCHANGED <<callVars, authVars, rosterVars>>

\* As subscribe_returns, with a failed audit call answered like a failed
\* subscribe.
subscribe_returns_audit_checked(s, ok, db) ==
    /\ sess[s].pc = "adapter"
    /\ subscribe_adapter_returns(s, ok)
    /\ DbOutcomeMatters(s, db)
    /\ ok \/ db = "ok"
    /\ sess' = IF ok /\ db = "ok"
               THEN [subscribed_ok(s, sess[s].pending.channel,
                                   sess[s].pending.data, Len(receivers) + 1)
                       EXCEPT ![s].dbCalls = @ + subscribe_statements(s, db)]
               ELSE [sess EXCEPT ![s].queue = tx_send(s, SubscribeFailedFrame),
                                 ![s].dbCalls = @ + IF ok THEN subscribe_statements(s, db)
                                                    ELSE 0,
                                 ![s].pc = "idle",
                                 ![s].pending = NoPending]
    /\ audit' = IF ok THEN audit_subscribed(s, sess[s].pending.channel,
                                           sess[s].pending.data, db)
                ELSE audit
    /\ UNCHANGED <<callVars, authVars, rosterVars>>

\* As subscribe_returns, with the channel inserted and its audit rows written
\* whatever ChannelService::subscribe returns.
subscribe_returns_inserting(s, ok, db) ==
    /\ sess[s].pc = "adapter"
    /\ subscribe_adapter_returns(s, ok)
    /\ IF ok
       THEN /\ DbOutcomeMatters(s, db)
            /\ sess' = [subscribed_ok(s, sess[s].pending.channel,
                                      sess[s].pending.data, Len(receivers) + 1)
                          EXCEPT ![s].dbCalls = @ + subscribe_statements(s, db)]
            /\ audit' = audit_subscribed(s, sess[s].pending.channel,
                                         sess[s].pending.data, db)
       ELSE /\ db = "ok"
            /\ sess' = [sess EXCEPT ![s].queue = tx_send(s, SubscribeFailedFrame),
                                    ![s].subscribed = @ \cup {sess[s].pending.channel},
                                    ![s].pc = "idle",
                                    ![s].pending = NoPending]
            /\ audit' = audit_subscribed(s, sess[s].pending.channel,
                                         sess[s].pending.data, db)
    /\ UNCHANGED <<callVars, authVars, rosterVars>>

\* ChannelService::subscribe returns to the Subscribe arm after the adapter call.
subscribe_returns(s, ok, db) ==
    /\ sess[s].pc = "adapter"
    /\ subscribe_adapter_returns(s, ok)
    /\ IF ok
       THEN /\ DbOutcomeMatters(s, db)
            /\ sess' = [subscribed_ok(s, sess[s].pending.channel,
                                      sess[s].pending.data, Len(receivers) + 1)
                          EXCEPT ![s].dbCalls = @ + subscribe_statements(s, db)]
            /\ audit' = audit_subscribed(s, sess[s].pending.channel,
                                         sess[s].pending.data, db)
       ELSE /\ db = "ok"
            /\ sess' = [sess EXCEPT ![s].queue = tx_send(s, SubscribeFailedFrame),
                                    ![s].pc = "idle",
                                    ![s].pending = NoPending]
            /\ UNCHANGED audit
    /\ UNCHANGED <<callVars, authVars, rosterVars>>

\* add_member returns: on Ok the arm goes on to list_members; on Err no frame
\* is sent. The Forwarder Task is spawned either way.
add_member_returns(s, outcome) ==
    LET p == sess[s].pending
    IN  /\ sess[s].pc = "add_member"
        /\ add_member(p.channel, generate_socket_id(s), user_id_of(p.data), p.data,
                      outcome)
        /\ sess' = IF outcome = "ok"
                   THEN [sess EXCEPT ![s].pc = "list_members"]
                   ELSE [sess EXCEPT ![s].forwarders = @ \cup {p.rx},
                                     ![s].pc = "idle",
                                     ![s].pending = NoPending]
        /\ UNCHANGED <<callVars, authVars, hubVars, audit>>

\* As list_members_returns, with the list as it was before the Session's own
\* add_member.
list_members_returns_without_self(s, ok) ==
    LET p == sess[s].pending
        h == hdel(rosterHash[p.channel], generate_socket_id(s))
        ids == IF ok THEN {h[x].user_id : x \in DOMAIN h} ELSE {}
        count == IF ok THEN Cardinality(DOMAIN h) ELSE 0
    IN  /\ sess[s].pc = "list_members"
        /\ sess' = [sess EXCEPT
              ![s].queue = tx_send(s, SubOkPresenceFrame(p.channel, ids, count)),
              ![s].forwarders = @ \cup {p.rx},
              ![s].pc = "idle",
              ![s].pending = NoPending]
        /\ UNCHANGED <<callVars, authVars, hubVars, rosterVars, audit>>

\* list_members returns (unwrap_or_default: an error lists nobody); sub_ok
\* with the ids and the count is sent and the Forwarder Task is spawned.
list_members_returns(s, ok) ==
    LET p == sess[s].pending
        ids == IF ok THEN list_members_ids(p.channel) ELSE {}
        count == IF ok THEN list_members_len(p.channel) ELSE 0
    IN  /\ sess[s].pc = "list_members"
        /\ sess' = [sess EXCEPT
              ![s].queue = tx_send(s, SubOkPresenceFrame(p.channel, ids, count)),
              ![s].forwarders = @ \cup {p.rx},
              ![s].pc = "idle",
              ![s].pending = NoPending]
        /\ UNCHANGED <<callVars, authVars, hubVars, rosterVars, audit>>

\* As unsubscribe_frame, with the member of any socket removed.
unsubscribe_frame_any_member(s, c, outcome, db) ==
    /\ BetweenFrames(s)
    /\ IF from_name(c) = "Presence"
       THEN \E t \in Sessions : remove_member(c, generate_socket_id(t), outcome)
       ELSE outcome = "ok" /\ UNCHANGED rosterVars
    /\ DbOutcomeMatters(s, db)
    /\ db # "second_fails"
    /\ audit' = IF sess[s].domain_id.some /\ db = "ok"
                THEN ws_connection_mark_disconnected_by_channel(
                         audit, generate_socket_id(s), c)
                ELSE audit
    /\ sess' = [sess EXCEPT ![s].subscribed = @ \ {c}, ![s].frames = @ + 1,
                            ![s].dbCalls = @ + domain_statements(s)]
    /\ UNCHANGED <<callVars, authVars, hubVars>>

\* As unsubscribe_frame, with the channel's Forwarder Tasks aborted.
unsubscribe_frame_aborting(s, c, outcome, db) ==
    /\ BetweenFrames(s)
    /\ IF from_name(c) = "Presence"
       THEN remove_member(c, generate_socket_id(s), outcome)
       ELSE outcome = "ok" /\ UNCHANGED rosterVars
    /\ DbOutcomeMatters(s, db)
    /\ db # "second_fails"
    /\ audit' = IF sess[s].domain_id.some /\ db = "ok"
                THEN ws_connection_mark_disconnected_by_channel(
                         audit, generate_socket_id(s), c)
                ELSE audit
    /\ sess' = [sess EXCEPT
                  ![s].subscribed = @ \ {c}, ![s].frames = @ + 1,
                  ![s].dbCalls = @ + domain_statements(s),
                  ![s].forwarders =
                      {r \in @ : upstreams[receivers[r].bc].channel # c}]
    /\ UNCHANGED <<callVars, authVars, hubVars>>

\* An Unsubscribe frame: remove_member for a Presence channel with its result
\* dropped (let _ =), the audit rows of the channel marked with a domain id,
\* then the channel leaves subscribed_channels. The channel's Forwarder Task
\* is left running.
unsubscribe_frame(s, c, outcome, db) ==
    /\ BetweenFrames(s)
    /\ IF from_name(c) = "Presence"
       THEN remove_member(c, generate_socket_id(s), outcome)
       ELSE outcome = "ok" /\ UNCHANGED rosterVars
    /\ DbOutcomeMatters(s, db)
    /\ db # "second_fails"
    /\ audit' = IF sess[s].domain_id.some /\ db = "ok"
                THEN ws_connection_mark_disconnected_by_channel(
                         audit, generate_socket_id(s), c)
                ELSE audit
    /\ sess' = [sess EXCEPT ![s].subscribed = @ \ {c}, ![s].frames = @ + 1,
                            ![s].dbCalls = @ + domain_statements(s)]
    /\ UNCHANGED <<callVars, authVars, hubVars>>

\* A Ping frame
ping_frame(s) ==
    /\ BetweenFrames(s)
    /\ sess' = [sess EXCEPT ![s].queue = tx_send(s, PongFrame), ![s].frames = @ + 1]
    /\ UNCHANGED <<callVars, authVars, hubVars, rosterVars, audit>>

\* Text that is no ClientMessage, or a Binary, Ping or Pong message
ignored_frame(s) ==
    /\ BetweenFrames(s)
    /\ sess' = [sess EXCEPT ![s].frames = @ + 1]
    /\ UNCHANGED <<callVars, authVars, hubVars, rosterVars, audit>>

\* Message::Text(text): the text is parsed and dispatched by its variant; text
\* that does not parse is skipped.
text_frame(s, text, outcome, db) ==
    IF from_str(text) = "Subscribe"
    THEN outcome = "ok"
         /\ subscribe_frame(s, text.channel, text.auth, text.channel_data, db)
    ELSE IF from_str(text) = "Unsubscribe"
    THEN unsubscribe_frame(s, text.channel, outcome, db)
    ELSE IF from_str(text) = "Ping"
    THEN outcome = "ok" /\ db = "ok" /\ ping_frame(s)
    ELSE outcome = "ok" /\ db = "ok" /\ ignored_frame(s)

Terminations == {"close_frame", "stream_end", "stream_error"}

\* The receive loop ends: Message::Close breaks it, a stream end or a stream
\* error fails the while-let pattern; the task keeps no record of which. The
\* closing loop starts over subscribed_channels.
terminate(s, why) ==
    /\ BetweenFrames(s)
    /\ why \in Terminations
    /\ sess' = [sess EXCEPT ![s].state = "Closing",
                            ![s].todo = sess[s].subscribed]
    /\ UNCHANGED <<callVars, authVars, hubVars, rosterVars, audit>>

\* As closing_step, with remove_member called for every channel of the loop.
closing_step_any_type(s, c, outcome) ==
    /\ sess[s].state = "Closing"
    /\ c \in sess[s].todo
    /\ remove_member(c, generate_socket_id(s), outcome)
    /\ sess' = [sess EXCEPT
          ![s].closeRemoved = Append(@, <<c, generate_socket_id(s)>>),
          ![s].todo = @ \ {c}]
    /\ UNCHANGED <<callVars, authVars, hubVars, audit>>

\* One iteration of the closing loop: remove_member for a Presence channel,
\* its result dropped.
closing_step(s, c, outcome) ==
    /\ sess[s].state = "Closing"
    /\ c \in sess[s].todo
    /\ IF from_name(c) = "Presence"
       THEN /\ remove_member(c, generate_socket_id(s), outcome)
            /\ sess' = [sess EXCEPT
                  ![s].closeRemoved = Append(@, <<c, generate_socket_id(s)>>),
                  ![s].todo = @ \ {c}]
       ELSE /\ outcome = "ok"
            /\ sess' = [sess EXCEPT ![s].todo = @ \ {c}]
            /\ UNCHANGED rosterVars
    /\ UNCHANGED <<callVars, authVars, hubVars, audit>>

\* After the closing loop: with a domain id the socket's audit rows are
\* marked, then send_task.abort() and the task returns.
closing_done(s, db) ==
    /\ sess[s].state = "Closing"
    /\ sess[s].todo = {}
    /\ DbOutcomeMatters(s, db)
    /\ db # "second_fails"
    /\ audit' = IF sess[s].domain_id.some /\ db = "ok"
                THEN ws_connection_mark_disconnected(audit, generate_socket_id(s))
                ELSE audit
    /\ sess' = [sess EXCEPT
          ![s].state = "Closed",
          ![s].writer = IF @ = "running" THEN "aborted" ELSE @,
          ![s].dbCalls = @ + domain_statements(s)]
    /\ UNCHANGED <<callVars, authVars, hubVars, rosterVars>>

\* The Forwarder Task of receiver r runs: it is spawned and its loop has not
\* ended.
ForwarderRunning(s, r) == r \in sess[s].forwarders /\ receivers[r].live

\* One iteration of a Forwarder Task: a payload received from the Hub is sent
\* into the outbound queue, the result of the send dropped; an Err of recv ends
\* the task.
forwarder_step(s, r) ==
    /\ r \in sess[s].forwarders
    /\ receiver_step(r)
    /\ sess' = IF receivers'[r].next > receivers[r].next
               THEN [sess EXCEPT
                       ![s].queue = tx_send(s, receivers'[r].got[Len(receivers'[r].got)])]
               ELSE sess
    /\ UNCHANGED <<callVars, authVars, rosterVars, audit>>

----------------------------------------------------------------------------
(* The upgrade (handlers/ws.rs, ws_handler) *)

\* The api_key query parameters of the upgrade requests
UpgradeQueries == {None, Some(NK_1)}

\* The x-app-key headers of the upgrade requests
UpgradeHeaders == {None, Some(NK_2), Some(NK_9)}

ORIGIN_A == HTTPS_PREFIX \o <<"A", ".", "i", "o">>

ORIGIN_XA == HTTPS_PREFIX \o <<"x", "a", ".", "i", "o", "/">>

ORIGIN_C == HTTP_PREFIX \o <<"c", ".", "d", "e">>

\* The Origin headers of the upgrade requests: none, a host in capitals, a
\* host that ends with a registered name, another host, and a bare host
UpgradeOrigins == {None, Some(ORIGIN_A), Some(ORIGIN_XA), Some(ORIGIN_C), Some(HOST_A)}

SWITCHING_PROTOCOLS == 101

NoUpgrade == [status |-> 0, api_key |-> None, origin |-> None, domain_id |-> NoDomain]

\* As ws_handler, without the Origin check.
ws_handler_any_origin(table, api_key, origin, db_ok) ==
    IF ~api_key.some
    THEN [status |-> SWITCHING_PROTOCOLS, domain_id |-> NoDomain]
    ELSE LET row == domain_find_by_key(table, api_key.val, db_ok)
         IN  IF ~row.ok THEN [status |-> status_of("Db"), domain_id |-> NoDomain]
             ELSE IF ~row.val.some
             THEN [status |-> status_of("Auth"), domain_id |-> NoDomain]
             ELSE [status |-> SWITCHING_PROTOCOLS,
                   domain_id |-> [some |-> TRUE, val |-> row.val.val.id]]

\* ws_handler: with an API key the key must be that of an active domain and
\* the Origin must parse and match the domain's name; the upgrade is answered
\* with the error's status, or accepted with the domain id the Session gets.
ws_handler(table, api_key, origin, db_ok) ==
    IF ~api_key.some
    THEN [status |-> SWITCHING_PROTOCOLS, domain_id |-> NoDomain]
    ELSE LET row == domain_find_by_key(table, api_key.val, db_ok)
             lowered == IF origin.some THEN Some(to_lowercase(origin.val)) ELSE None
             origin_host == IF lowered.some THEN parse_origin_host(lowered.val)
                            ELSE None
         IN  IF ~row.ok THEN [status |-> status_of("Db"), domain_id |-> NoDomain]
             ELSE IF ~row.val.some
             THEN [status |-> status_of("Auth"), domain_id |-> NoDomain]
             ELSE IF ~origin_host.some
             THEN [status |-> status_of("Auth"), domain_id |-> NoDomain]
             ELSE IF ~domain_matches(row.val.val.domain_name, origin_host.val)
             THEN [status |-> status_of("Auth"), domain_id |-> NoDomain]
             ELSE [status |-> SWITCHING_PROTOCOLS,
                   domain_id |-> [some |-> TRUE, val |-> row.val.val.id]]

\* An upgrade request for WebSocket s: the key is the api_key query parameter
\* or else the x-app-key header.
WsHandler(s, query, header, origin, db_ok) ==
    LET api_key == IF query.some THEN query ELSE header
        res == ws_handler(domains, api_key, origin, db_ok)
    IN  /\ upgradeCall[s].status = 0
        /\ api_key.some \/ db_ok
        /\ upgradeCall' = [upgradeCall EXCEPT ![s] =
              [status |-> res.status, api_key |-> api_key, origin |-> origin,
               domain_id |-> res.domain_id]]
        /\ UNCHANGED <<classifyCall, memberLog, listCall, domains, httpCall,
                       originCall, authVars, hubVars, sessVars>>

\* handle_socket starts for an accepted upgrade, with the domain id resolved.
on_upgrade(s, sent) ==
    /\ upgradeCall[s].status = SWITCHING_PROTOCOLS
    /\ handshake(s, upgradeCall[s].domain_id, sent)

----------------------------------------------------------------------------

(* Specifications *)

InitRoster ==
    /\ rosterSet = [c \in Channels |-> {}]
    /\ rosterHash = [c \in Channels |-> EmptyHash]

InitHub ==
    /\ subscribers = [c \in Channels |-> 0]
    /\ hubLock = 0
    /\ hubCall = [k \in Callers |-> IdleCall]
    /\ hubStats = [c \in Channels |-> NoStats]
    /\ published = [c \in Channels |-> <<>>]
    /\ upstreams = <<>>
    /\ receivers = <<>>

InitSessions ==
    /\ sess = [s \in Sessions |-> NewSession]
    /\ audit = NoAudit
    /\ InitRoster

InitCalls ==
    /\ classifyCall = NoClassify
    /\ memberLog = [c \in Channels |-> [s \in Sessions |-> NoMemberCall]]
    /\ listCall = NoListCall
    /\ domains = DomainRows
    /\ httpCall = NoHttpCall
    /\ originCall = NoOriginCall
    /\ upgradeCall = [s \in Sessions |-> NoUpgrade]

InitAuth ==
    /\ app_secret \in Secrets
    /\ signCall = NoCall
    /\ verifyCall = NoCall
    /\ InitHub
    /\ InitSessions
    /\ InitCalls

Init ==
    /\ app_secret = <<"k", "1">>
    /\ signCall = NoCall
    /\ verifyCall = NoCall
    /\ InitHub
    /\ InitSessions
    /\ InitCalls

\* sign_channel and verify_channel_auth applied to every input
NextAuth ==
    \/ \E s \in AuthSocketIds, c \in AuthChannels, d \in AuthChannelData :
          SignChannel(s, c, d)
    \/ \E s \in AuthSocketIds, c \in AuthChannels, d \in AuthChannelData :
          \E a \in AuthOffers : VerifyChannelAuth(c, s, a, d)

SpecAuth == InitAuth /\ [][NextAuth]_vars

\* The classifier applied to every name
NextClassify == \E name \in ClassifyNames : Classify(name)

SpecClassify == Init /\ [][NextClassify]_vars

\* Tasks calling the Roster for any socket, in any order, with every bus outcome
NextRoster ==
    \/ \E c \in RosterChannels, s \in Sessions, u \in RosterUsers :
          \E outcome \in BusOutcomes : AddMember(c, s, u, outcome)
    \/ \E c \in RosterChannels, s \in Sessions, outcome \in BusOutcomes :
          RemoveMember(c, s, outcome)
    \/ \E c \in RosterChannels, ok \in BOOLEAN : ListMembers(c, ok)

SpecRoster == Init /\ [][NextRoster]_vars

\* parse_origin_host applied to every Origin header and domain_matches to
\* every stored domain name and host
NextOrigin ==
    \/ \E origin \in Origins : ParseOriginHost(origin)
    \/ \E text \in DomainTexts, host \in OriginHosts : DomainMatches(text, host)

SpecOrigin == Init /\ [][NextOrigin]_vars

\* HTTP callers post broadcasts with any x-app-key while dashboard users switch
\* domains on and off and delete them; the database and the bus can fail.
NextHttp ==
    \/ \E id \in DomainIds, is_active \in BOOLEAN : DomainSetActive(id, is_active)
    \/ \E id \in DomainIds : DomainDelete(id)
    \/ \E header \in HttpHeaders, c \in HubChannels, e \in Events :
          \E db_ok \in BOOLEAN, bus_ok \in BOOLEAN :
              Published < MaxMsgs /\ HttpBroadcast(header, c, e, db_ok, bus_ok)

SpecHttp == Init /\ [][NextHttp]_vars

\* Tasks calling the Hub's subscribe, unsubscribe and broadcast in any order
NextHub ==
    \/ \E k \in Callers, c \in HubChannels :
          SubscribeCalls < MaxHubCalls /\ subscribe_enter(k, c) /\ UNCHANGED <<callVars, authVars, sessVars>>
    \/ \E k \in Callers, ok \in BOOLEAN :
          subscribe_adapter_returns(k, ok) /\ UNCHANGED <<callVars, authVars, sessVars>>
    \/ \E c \in HubChannels : 
          hubStats[c].unsubs < MaxUnsubs /\ unsubscribe(c) /\ UNCHANGED <<callVars, authVars, sessVars>>
    \/ \E c \in HubChannels, e \in Events, ok \in BOOLEAN :
          Published < MaxMsgs /\ broadcast(c, e, ok) /\ UNCHANGED <<callVars, authVars, sessVars>>
    \/ \E u \in 1 .. Len(upstreams) : repo_task_step(u) /\ UNCHANGED <<callVars, authVars, sessVars>>
    \/ \E u \in 1 .. Len(upstreams) : stream_ends(u) /\ UNCHANGED <<callVars, authVars, sessVars>>
    \/ \E u \in 1 .. Len(upstreams) : hub_forwarder_step(u) /\ UNCHANGED <<callVars, authVars, sessVars>>
    \/ \E r \in 1 .. Len(receivers) : receiver_step(r) /\ UNCHANGED <<callVars, authVars, sessVars>>

SpecHub == Init /\ [][NextHub]_vars

\* As NextHub, with the broadcasts made by HTTP callers who hold the legacy key
\* or no key.
NextFan ==
    \/ \E k \in Callers, c \in HubChannels :
          SubscribeCalls < FanCalls /\ k <= FanCalls /\ subscribe_enter(k, c) /\ UNCHANGED <<callVars, authVars, sessVars>>
    \/ \E k \in Callers, ok \in BOOLEAN :
          subscribe_adapter_returns(k, ok) /\ UNCHANGED <<callVars, authVars, sessVars>>
    \/ \E c \in HubChannels :
          hubStats[c].unsubs < MaxUnsubs /\ unsubscribe(c) /\ UNCHANGED <<callVars, authVars, sessVars>>
    \/ \E header \in {None, Some(app_key)}, c \in HubChannels, e \in Events :
          \E bus_ok \in BOOLEAN :
              Published < MaxFanMsgs /\ HttpBroadcast(header, c, e, TRUE, bus_ok)
    \/ \E u \in 1 .. Len(upstreams) : repo_task_step(u) /\ UNCHANGED <<callVars, authVars, sessVars>>
    \/ \E u \in 1 .. Len(upstreams) : stream_ends(u) /\ UNCHANGED <<callVars, authVars, sessVars>>
    \/ \E u \in 1 .. Len(upstreams) : hub_forwarder_step(u) /\ UNCHANGED <<callVars, authVars, sessVars>>
    \/ \E r \in 1 .. Len(receivers) : receiver_step(r) /\ UNCHANGED <<callVars, authVars, sessVars>>

SpecFan == Init /\ [][NextFan]_vars

\* Every open bus stream has been read to its end by its adapter task.
StreamsDrained ==
    \A u \in 1 .. Len(upstreams) :
        upstreams[u].open
        => upstreams[u].from + upstreams[u].taken = Len(published[upstreams[u].channel])

\* One channel with few subscribers and a long run of published payloads, so
\* that the 64-deep broadcasts can fill. The publisher is paced by the adapter
\* task (it publishes once the channel is subscribed at the bus and the bus
\* stream is drained) and the bus connection stays up; the Hub's forwarder and
\* the receivers run at any speed.
NextBurst ==
    \/ \E k \in Callers :
          /\ SubscribeCalls < BurstCalls
          /\ k <= BurstCalls
          /\ subscribe_enter(k, ROOM)
          /\ UNCHANGED <<callVars, authVars, sessVars>>
    \/ \E k \in Callers, ok \in BOOLEAN :
          subscribe_adapter_returns(k, ok) /\ UNCHANGED <<callVars, authVars, sessVars>>
    \/ \E e \in Events :
          /\ Published < MaxBurst
          /\ upstreams # <<>>
          /\ StreamsDrained
          /\ broadcast(ROOM, e, TRUE)
          /\ UNCHANGED <<callVars, authVars, sessVars>>
    \/ \E u \in 1 .. Len(upstreams) : repo_task_step(u) /\ UNCHANGED <<callVars, authVars, sessVars>>
    \/ \E u \in 1 .. Len(upstreams) : hub_forwarder_step(u) /\ UNCHANGED <<callVars, authVars, sessVars>>
    \/ \E r \in 1 .. Len(receivers) : receiver_step(r) /\ UNCHANGED <<callVars, authVars, sessVars>>

SpecBurst == Init /\ [][NextBurst]_vars

\* The client frames handled so far
FramesHandled ==
    LET n[S \in SUBSET Sessions] ==
          IF S = {} THEN 0
          ELSE LET s == CHOOSE x \in S : TRUE IN sess[s].frames + n[S \ {s}]
    IN  n[Sessions]

\* WebSocket sessions over the Hub and the Roster: clients send any frames,
\* every bus operation can fail, and an HTTP caller broadcasts.
NextSession ==
    \/ \E s \in Sessions, sent \in BOOLEAN : handshake(s, NoDomain, sent)
    \/ \E s \in Sessions :
          /\ FramesHandled < MaxFrames
          /\ BetweenFrames(s)
          /\ \E text \in ClientTexts(s) :
                \E outcome \in TextBusOutcomes(text), db \in SessDbOutcomes(s) :
                    text_frame(s, text, outcome, db)
    \/ \E s \in Sessions : FramesHandled < MaxFrames /\ ignored_frame(s)
    \/ \E s \in Sessions, ok \in BOOLEAN :
          \E db \in SessDbOutcomes(s) : subscribe_returns(s, ok, db)
    \/ \E s \in Sessions, outcome \in BusOutcomes : add_member_returns(s, outcome)
    \/ \E s \in Sessions, ok \in BOOLEAN : list_members_returns(s, ok)
    \/ \E s \in Sessions, why \in Terminations : terminate(s, why)
    \/ \E s \in Sessions, c \in SessChannels, outcome \in BusOutcomes :
          closing_step(s, c, outcome)
    \/ \E s \in Sessions : \E db \in SessDbOutcomes(s) : closing_done(s, db)
    \/ \E c \in SessChannels, e \in Events, ok \in BOOLEAN :
          Published < MaxMsgs /\ broadcast(c, e, ok) /\ UNCHANGED <<callVars, authVars, sessVars>>
    \/ \E u \in 1 .. Len(upstreams) : repo_task_step(u) /\ UNCHANGED <<callVars, authVars, sessVars>>
    \/ \E u \in 1 .. Len(upstreams) : hub_forwarder_step(u) /\ UNCHANGED <<callVars, authVars, sessVars>>
    \/ \E s \in Sessions, r \in 1 .. Len(receivers) : forwarder_step(s, r)

SpecSession == Init /\ [][NextSession]_vars

\* The sockets of the single-connection scenario
WireSessions == {1}

\* One WebSocket seen from its client: it connects with or without an API key,
\* its Writer Task runs, every write to the socket, every bus call and every
\* database call can fail, and an HTTP caller broadcasts.
NextWire ==
    \/ \E s \in WireSessions, d \in Domains, sent \in BOOLEAN : handshake(s, d, sent)
    \/ \E s \in WireSessions, sent \in BOOLEAN : writer_step(s, sent)
    \/ \E s \in WireSessions :
          /\ FramesHandled < MaxFrames
          /\ BetweenFrames(s)
          /\ \E text \in ClientTexts(s) :
                \E outcome \in TextBusOutcomes(text), db \in SessDbOutcomes(s) :
                    text_frame(s, text, outcome, db)
    \/ \E s \in WireSessions : FramesHandled < MaxFrames /\ ignored_frame(s)
    \/ \E s \in WireSessions, ok \in BOOLEAN :
          \E db \in SessDbOutcomes(s) : subscribe_returns(s, ok, db)
    \/ \E s \in WireSessions, outcome \in BusOutcomes : add_member_returns(s, outcome)
    \/ \E s \in WireSessions, ok \in BOOLEAN : list_members_returns(s, ok)
    \/ \E s \in WireSessions, why \in Terminations : terminate(s, why)
    \/ \E s \in WireSessions, c \in SessChannels, outcome \in BusOutcomes :
          closing_step(s, c, outcome)
    \/ \E s \in WireSessions : \E db \in SessDbOutcomes(s) : closing_done(s, db)
    \/ \E c \in SessChannels, e \in Events, ok \in BOOLEAN :
          Published < MaxMsgs /\ broadcast(c, e, ok) /\ UNCHANGED <<callVars, authVars, sessVars>>
    \/ \E u \in 1 .. Len(upstreams) : repo_task_step(u) /\ UNCHANGED <<callVars, authVars, sessVars>>
    \/ \E u \in 1 .. Len(upstreams) : hub_forwarder_step(u) /\ UNCHANGED <<callVars, authVars, sessVars>>
    \/ \E s \in WireSessions, r \in 1 .. Len(receivers) : forwarder_step(s, r)

SpecWire == Init /\ [][NextWire]_vars

\* The sockets of the upgrade scenario
UpgradeSessions == {1}

\* One WebSocket from its upgrade request on: any key and Origin, dashboard
\* users switching domains on and off and deleting them, then the session with
\* its frames, its bus and database calls, each of which can fail.
NextUpgrade ==
    \/ \E id \in DomainIds, is_active \in BOOLEAN : DomainSetActive(id, is_active)
    \/ \E id \in DomainIds : DomainDelete(id)
    \/ \E s \in UpgradeSessions, query \in UpgradeQueries, header \in UpgradeHeaders :
          \E origin \in UpgradeOrigins, db_ok \in BOOLEAN :
              WsHandler(s, query, header, origin, db_ok)
    \/ \E s \in UpgradeSessions, sent \in BOOLEAN : on_upgrade(s, sent)
    \/ \E s \in UpgradeSessions :
          /\ FramesHandled < MaxFrames
          /\ BetweenFrames(s)
          /\ \E text \in ClientTexts(s) :
                \E outcome \in TextBusOutcomes(text), db \in SessDbOutcomes(s) :
                    text_frame(s, text, outcome, db)
    \/ \E s \in UpgradeSessions, ok \in BOOLEAN :
          \E db \in SessDbOutcomes(s) : subscribe_returns(s, ok, db)
    \/ \E s \in UpgradeSessions, outcome \in BusOutcomes : add_member_returns(s, outcome)
    \/ \E s \in UpgradeSessions, ok \in BOOLEAN : list_members_returns(s, ok)
    \/ \E s \in UpgradeSessions, why \in Terminations : terminate(s, why)
    \/ \E s \in UpgradeSessions, c \in SessChannels, outcome \in BusOutcomes :
          closing_step(s, c, outcome)
    \/ \E s \in UpgradeSessions : \E db \in SessDbOutcomes(s) : closing_done(s, db)

SpecUpgrade == Init /\ [][NextUpgrade]_vars

\* The steps of the server's own tasks: the Writer Task, the Forwarder Tasks,
\* the adapter and Hub tasks, and the session task past an await or in its
\* closing. The runtime schedules every task that can run.
TaskStep ==
    \/ \E s \in WireSessions, sent \in BOOLEAN : writer_step(s, sent)
    \/ \E s \in WireSessions, ok \in BOOLEAN :
          \E db \in SessDbOutcomes(s) : subscribe_returns(s, ok, db)
    \/ \E s \in WireSessions, outcome \in BusOutcomes : add_member_returns(s, outcome)
    \/ \E s \in WireSessions, ok \in BOOLEAN : list_members_returns(s, ok)
    \/ \E s \in WireSessions, c \in SessChannels, outcome \in BusOutcomes :
          closing_step(s, c, outcome)
    \/ \E s \in WireSessions : \E db \in SessDbOutcomes(s) : closing_done(s, db)
    \/ \E u \in 1 .. Len(upstreams) : repo_task_step(u) /\ UNCHANGED <<callVars, authVars, sessVars>>
    \/ \E u \in 1 .. Len(upstreams) : hub_forwarder_step(u) /\ UNCHANGED <<callVars, authVars, sessVars>>
    \/ \E s \in WireSessions, r \in 1 .. Len(receivers) : forwarder_step(s, r)

SpecWireLive == Init /\ [][NextWire]_vars /\ WF_vars(TaskStep)

\* One WebSocket without an API key and HTTP callers holding the legacy key,
\* beside a task that calls ChannelService::unsubscribe (no handler does).
NextCleanup ==
    \/ \E s \in WireSessions, sent \in BOOLEAN : handshake(s, NoDomain, sent)
    \/ \E s \in WireSessions :
          /\ FramesHandled < MaxFrames
          /\ BetweenFrames(s)
          /\ \E text \in ClientTexts(s) :
                \E outcome \in TextBusOutcomes(text) : text_frame(s, text, outcome, "ok")
    \/ \E s \in WireSessions, ok \in BOOLEAN : subscribe_returns(s, ok, "ok")
    \/ \E s \in WireSessions, outcome \in BusOutcomes : add_member_returns(s, outcome)
    \/ \E s \in WireSessions, ok \in BOOLEAN : list_members_returns(s, ok)
    \/ \E s \in WireSessions, why \in Terminations : terminate(s, why)
    \/ \E s \in WireSessions, c \in SessChannels, outcome \in BusOutcomes :
          closing_step(s, c, outcome)
    \/ \E s \in WireSessions : closing_done(s, "ok")
    \/ \E c \in SessChannels :
          hubStats[c].unsubs < MaxUnsubs /\ unsubscribe(c) /\ UNCHANGED <<callVars, authVars, sessVars>>
    \/ \E c \in SessChannels, e \in Events, bus_ok \in BOOLEAN :
          Published < MaxMsgs /\ HttpBroadcast(Some(app_key), c, e, TRUE, bus_ok)
    \/ \E u \in 1 .. Len(upstreams) : repo_task_step(u) /\ UNCHANGED <<callVars, authVars, sessVars>>
    \/ \E u \in 1 .. Len(upstreams) : hub_forwarder_step(u) /\ UNCHANGED <<callVars, authVars, sessVars>>
    \/ \E s \in WireSessions, r \in 1 .. Len(receivers) : forwarder_step(s, r)

SpecCleanup == Init /\ [][NextCleanup]_vars

MultiFrames == 3    \* client frames handled in the resubscription scenario

\* The texts of a client that subscribes to and unsubscribes from two channels
MultiTexts(s) ==
    {text \in ClientTexts(s) :
        /\ from_str(text) \in {"Subscribe", "Unsubscribe"}
        /\ text.channel \in {ROOM, PRESENCE_A}}

\* One WebSocket without an API key that subscribes and unsubscribes over and
\* again while an HTTP caller broadcasts; the bus and the socket can fail.
NextMulti ==
    \/ \E s \in WireSessions, sent \in BOOLEAN : handshake(s, NoDomain, sent)
    \/ \E s \in WireSessions, sent \in BOOLEAN : writer_step(s, sent)
    \/ \E s \in WireSessions :
          /\ FramesHandled < MultiFrames
          /\ BetweenFrames(s)
          /\ \E text \in MultiTexts(s) :
                \E outcome \in TextBusOutcomes(text) : text_frame(s, text, outcome, "ok")
    \/ \E s \in WireSessions, ok \in BOOLEAN : subscribe_returns(s, ok, "ok")
    \/ \E s \in WireSessions, outcome \in BusOutcomes : add_member_returns(s, outcome)
    \/ \E s \in WireSessions, ok \in BOOLEAN : list_members_returns(s, ok)
    \/ \E c \in {ROOM, PRESENCE_A}, e \in Events, ok \in BOOLEAN :
          Published < MaxMsgs /\ broadcast(c, e, ok) /\ UNCHANGED <<callVars, authVars, sessVars>>
    \/ \E u \in 1 .. Len(upstreams) : repo_task_step(u) /\ UNCHANGED <<callVars, authVars, sessVars>>
    \/ \E u \in 1 .. Len(upstreams) : hub_forwarder_step(u) /\ UNCHANGED <<callVars, authVars, sessVars>>
    \/ \E s \in WireSessions, r \in 1 .. Len(receivers) : forwarder_step(s, r)

SpecMulti == Init /\ [][NextMulti]_vars

----------------------------------------------------------------------------
(* Claims *)

\* The adapter subscriptions of channel c whose bus stream is open and whose
\* draining forwarder runs.
LiveUpstreams(c) ==
    {u \in 1 .. Len(upstreams) :
        upstreams[u].channel = c /\ upstreams[u].open /\ upstreams[u].fwdAlive}

\* C1: in every reachable state, after any interleaving of Hub subscribe,
\* unsubscribe and broadcast calls, at most one live upstream bus subscription
\* (adapter subscription with its draining task) exists for each channel.
C1_AtMostOneUpstream ==
    \A c \in Channels : Cardinality(LiveUpstreams(c)) <= 1

InAdapter(c) == {k \in Callers : hubCall[k].pc = "adapter" /\ hubCall[k].channel = c}

ReceiversOf(c) == {r \in 1 .. Len(receivers) : upstreams[receivers[r].bc].channel = c}

\* C2 as stated: for concurrent subscribe(C) calls on a Hub that had no entry
\* for C (and no unsubscribe), once the calls have returned exactly one adapter
\* subscribe_to_channel(C) invocation has occurred, and every caller holds a
\* receiver of its own attached to the sender stored in the map for C.
C2_ExactlyOneAdapterCall ==
    \A c \in Channels :
        (/\ hubStats[c].unsubs = 0
         /\ InAdapter(c) = {}
         /\ hubStats[c].okReturns + hubStats[c].errReturns >= 1)
        => /\ hubStats[c].adapterCalls = 1
           /\ hubStats[c].errReturns = 0
           /\ Cardinality(ReceiversOf(c)) = hubStats[c].okReturns
           /\ \A r \in ReceiversOf(c) : receivers[r].bc = subscribers[c]

\* C2 amended: for concurrent subscribe(C) calls on a Hub that had no entry for
\* C, adapter invocations happen one at a time and only while the map has no
\* entry for C; one that fails returns the error to its caller and leaves the
\* map without an entry; exactly one succeeds once any caller has a receiver;
\* the callers that return Ok hold distinct receivers, all attached to the
\* single sender stored in the map for C.
C2_OneSuccessfulAdapterCall ==
    \A c \in Channels :
        hubStats[c].unsubs = 0
        => /\ Cardinality(InAdapter(c)) <= 1
           /\ hubStats[c].adapterCalls
                 = hubStats[c].adapterOk + hubStats[c].errReturns
                     + Cardinality(InAdapter(c))
           /\ hubStats[c].adapterOk <= 1
           /\ (hubStats[c].adapterOk = 1) = (subscribers[c] # 0)
           /\ InAdapter(c) # {} => hubStats[c].adapterOk = 0
           /\ hubStats[c].okReturns >= 1 => hubStats[c].adapterOk = 1
           /\ Cardinality(ReceiversOf(c)) = hubStats[c].okReturns
           /\ \A r \in ReceiversOf(c) : receivers[r].bc = subscribers[c]

\* C2 witness: after a failed adapter call, a second call subscribed and two
\* callers hold receivers of the one broadcast.
C2_Witness_TwoReceiversAfterFailure ==
    \E c \in Channels :
        /\ hubStats[c].unsubs = 0
        /\ hubStats[c].errReturns >= 1
        /\ hubStats[c].adapterOk = 1
        /\ hubStats[c].okReturns >= 2
        /\ InAdapter(c) = {}

NotLagging(r) ==
    /\ receivers[r].exit # "lagged"
    /\ Len(upstreams[receivers[r].bc].hlog) - receivers[r].next <= BROADCAST_CAPACITY

\* C3: every payload the adapter yields for a channel is observed, in bus
\* order, by every Hub receiver attached at the time of the yield that is never
\* more than 64 messages behind: what such a receiver has got is what was sent
\* into its broadcast since it attached, that is what the adapter yielded, in
\* the order the bus published it, and the forwarder never stops while a
\* payload the adapter yielded is still to be sent.
C3_FanOutFidelity ==
    \A r \in 1 .. Len(receivers) :
        LET rx == receivers[r]
            up == upstreams[rx.bc]
        IN  NotLagging(r)
            => /\ rx.got = SubSeq(up.hlog, rx.attach + 1, rx.next)
               /\ up.hlog = SubSeq(up.abuf, 1, Len(up.hlog))
               /\ up.abuf = SubSeq(published[up.channel], up.from + 1,
                                   up.from + Len(up.abuf))
               /\ ~up.fwdAlive => Len(up.hlog) = Len(up.abuf)


\* The remove_member(c, socket_id) calls session s has made in Closing
CloseRemovals(s, c) ==
    Cardinality({i \in 1 .. Len(sess[s].closeRemoved) :
                    sess[s].closeRemoved[i] = <<c, generate_socket_id(s)>>})

\* C4: when a Session has terminated (by a Close frame, the end of the inbound
\* stream or an error of it) and its closing is over, remove_member(channel,
\* socket_id) was invoked during Closing exactly once for every Presence
\* channel in the subscribed set of that moment and never for any other
\* channel; while it is closing, never more than once and only for channels
\* already visited; before that, never.
C4_SessionCleanup ==
    \A s \in Sessions : \A c \in Channels :
        /\ sess[s].state = "Closed"
           => CloseRemovals(s, c) =
                 IF c \in sess[s].subscribed /\ from_name(c) = "Presence" THEN 1 ELSE 0
        /\ sess[s].state = "Closing"
           => CloseRemovals(s, c) =
                 IF c \in sess[s].subscribed \ sess[s].todo /\ from_name(c) = "Presence"
                 THEN 1 ELSE 0
        /\ sess[s].state \in {"Connecting", "Established"}
           => sess[s].closeRemoved = <<>>

C4_Witness_ClosedWithPresenceAndPublic ==
    \E s \in Sessions :
        /\ sess[s].state = "Closed"
        /\ sess[s].subscribed = {ROOM, PRESENCE_A}
        /\ sess[s].closeRemoved = << <<PRESENCE_A, generate_socket_id(s)>> >>

\* The socket id has an entry in the Roster's storage for channel c.
InRoster(c, socket_id) ==
    socket_id \in rosterSet[c] \/ socket_id \in DOMAIN rosterHash[c]

\* C5: in every state in which a Session is Closed, the Roster holds no member
\* with that Session's socket id in any channel.
C5_NoMembershipAfterClosed ==
    \A s \in Sessions :
        sess[s].state = "Closed"
        => \A c \in Channels : ~InRoster(c, generate_socket_id(s))

\* C6: between client frames, a socket id is in the Roster for channel c if
\* and only if c is a Presence channel in that Session's subscribed set.
C6_RosterIffSubscribedPresence ==
    \A s \in Sessions :
        BetweenFrames(s)
        => \A c \in Channels :
              InRoster(c, generate_socket_id(s))
              <=> (from_name(c) = "Presence" /\ c \in sess[s].subscribed)

\* The channels of the Hub receivers session s owns: those of its running
\* Forwarder Tasks.
OwnedChannels(s) ==
    {upstreams[receivers[r].bc].channel :
        r \in {x \in sess[s].forwarders : ForwarderRunning(s, x)}}

\* C7: between client frames, a Session's subscribed set equals the set of
\* channels for which it owns a live Hub receiver (a running Forwarder Task).
C7_SubscribedMirrorsReceivers ==
    \A s \in Sessions :
        BetweenFrames(s) => sess[s].subscribed = OwnedChannels(s)

\* name is prefix followed by something (possibly nothing).
BeginsWith(name, prefix) ==
    \E k \in 0 .. Len(name) :
        name = prefix \o SubSeq(name, Len(name) - k + 1, Len(name))

\* C11: for every name the classifier returns exactly one of Presence, Private
\* and Public: Presence exactly for the names that begin with "presence-",
\* Private exactly for those that begin with "private-", Public for every other
\* name (the empty one and those that hold a prefix further on included); and
\* is_private holds exactly for Private and Presence.
C11_ClassifierTotalByPrefix ==
    classifyCall.made
    => /\ classifyCall.type \in {"Presence", "Private", "Public"}
       /\ classifyCall.type = "Presence"
             <=> BeginsWith(classifyCall.name, PRESENCE_PREFIX)
       /\ classifyCall.type = "Private"
             <=> BeginsWith(classifyCall.name, PRIVATE_PREFIX)
       /\ classifyCall.type = "Public"
             <=> (~BeginsWith(classifyCall.name, PRESENCE_PREFIX)
                  /\ ~BeginsWith(classifyCall.name, PRIVATE_PREFIX))
       /\ classifyCall.private <=> classifyCall.type \in {"Private", "Presence"}

C11_Witness_PrefixLaterIsPublic ==
    /\ classifyCall.made
    /\ classifyCall.name = <<"x">> \o PRESENCE_PREFIX \o <<"a">>
    /\ classifyCall.type = "Public"
    /\ ~classifyCall.private

\* What list_members returned agrees with the last call logged for socket s.
Coherent(log, s, users) ==
    /\ log.op = "add"
       => /\ generate_socket_id(s) \in DOMAIN users
          /\ users[generate_socket_id(s)].user_id = log.user_id
    /\ log.op = "remove" => generate_socket_id(s) \notin DOMAIN users

\* C12: whenever list_members(C) returns, for every socket s whose last Roster
\* call on C is an add_member(C, s, u) that succeeded, the result holds a
\* PresenceUser with user_id u for s, and for every socket s whose last Roster
\* call on C is a remove_member(C, s) that succeeded, the result holds no entry
\* of s; whatever the other sockets add and remove on C in between.
C12_PresenceCoherence ==
    [][(listCall' # listCall /\ listCall'.ok)
       => \A s \in Sessions :
             Coherent(memberLog[listCall'.channel][s], s, listCall'.users)]_vars

C12_Witness_ListedAfterOtherLeft ==
    /\ listCall.made /\ listCall.ok /\ listCall.channel = PRESENCE_A
    /\ memberLog[PRESENCE_A][1] = [op |-> "add", user_id |-> UserOf(1)]
    /\ memberLog[PRESENCE_A][2] = [op |-> "remove", user_id |-> <<>>]
    /\ DOMAIN listCall.users = {generate_socket_id(1)}
    /\ generate_socket_id(2) \notin rosterSet[PRESENCE_A]

\* The Subscribe texts of socket s that name a Private or Presence channel and
\* whose auth does not verify.
AuthFailingTexts(s) ==
    {text \in ClientTexts(s) :
        /\ from_str(text) = "Subscribe"
        /\ from_name(text.channel) \in {"Private", "Presence"}
        /\ verify_channel_auth(text.channel, generate_socket_id(s), text.auth,
                               channel_data_string(text.channel_data)) # "Ok"}

\* C13: a step in which an Established Session handles a Subscribe frame for
\* a Private or Presence channel whose verification fails (auth missing or
\* wrong) sends exactly one frame, pusher:error with code 4009, into the
\* outbound queue (which takes it while the Writer Task runs), leaves the
\* Session Established and waiting for the next frame, and leaves the
\* subscribed set, the Forwarder Tasks, the Hub, the Roster and the audit
\* store unchanged.
C13_AuthFailureOnSubscribe ==
    [][\A s \in Sessions :
          (BetweenFrames(s) /\ sess'[s].frames > sess[s].frames
           /\ \E text \in AuthFailingTexts(s) : text_frame(s, text, "ok", "ok"))
          => /\ sess'[s].queue =
                   IF sess[s].writer = "running"
                   THEN Append(sess[s].queue,
                               [event |-> "pusher:error",
                                message |-> "Auth failed for channel",
                                code |-> 4009])
                   ELSE sess[s].queue
             /\ sess'[s].state = "Established"
             /\ sess'[s].pc = "idle"
             /\ sess'[s].subscribed = sess[s].subscribed
             /\ sess'[s].forwarders = sess[s].forwarders
             /\ UNCHANGED <<hubVars, rosterVars, audit>>]_vars

C13_Witness_ErrorFrameOnly ==
    /\ sess[1].state = "Established"
    /\ sess[1].domain_id.some
    /\ sess[1].frames = 1
    /\ Len(sess[1].queue) = 1
    /\ sess[1].queue[1].event = "pusher:error"
    /\ sess[1].queue[1].code = 4009
    /\ sess[1].subscribed = {}
    /\ audit = NoAudit
    /\ upstreams = <<>>

\* C14: a step in which a Session takes a text frame whose event is
\* "pusher:subscribe" is the handling of a Subscribe of that frame's channel,
\* one whose event is "pusher:unsubscribe" the handling of an Unsubscribe, and
\* one whose event is "pusher:ping" the handling of a Ping, which sends the
\* pusher:pong frame into the outbound queue.
C14_DispatchByPusherTag ==
    [][\A s \in Sessions :
          (BetweenFrames(s) /\ sess'[s].frames > sess[s].frames)
          => \A text \in {t \in ClientTexts(s) : t.event \in PusherTags} :
             \A outcome \in BusOutcomes, db \in DbOutcomes :
                text_frame(s, text, outcome, db)
                => /\ text.event = "pusher:subscribe"
                      => subscribe_frame(s, text.channel, text.auth,
                                         text.channel_data, db)
                   /\ text.event = "pusher:unsubscribe"
                      => unsubscribe_frame(s, text.channel, outcome, db)
                   /\ text.event = "pusher:ping"
                      => /\ ping_frame(s)
                         /\ sess[s].writer = "running"
                            => sess'[s].queue = Append(sess[s].queue, PongFrame)]_vars

\* The payloads of ROOM that were published after a Forwarder Task's receiver
\* of session s was attached and are not yet written to the socket of s.
Undelivered(s) ==
    {i \in 1 .. Len(published[ROOM]) :
        /\ \E r \in sess[s].forwarders :
              /\ upstreams[receivers[r].bc].channel = ROOM
              /\ i > upstreams[receivers[r].bc].from + receivers[r].attach
        /\ \A j \in 1 .. Len(sess[s].wire) : sess[s].wire[j] # published[ROOM][i]}

\* The socket of s and the bus stay up and no task of the path has ended.
PathUp(s) ==
    /\ sess[s].state = "Established"
    /\ sess[s].writer = "running"
    /\ \A r \in sess[s].forwarders :
          /\ receivers[r].live
          /\ upstreams[receivers[r].bc].open
          /\ upstreams[receivers[r].bc].fwdAlive

\* C15: a step in which a Session takes the text frame {"event":
\* "pusher:subscribe", "data": {"channel": room}} is the handling of a
\* Subscribe of room (so that subscription_succeeded for room follows); the
\* first frame on the socket is connection_established; and every payload
\* broadcast to room after the Session's receiver is attached is eventually
\* written to the socket as the wire event, as long as the bus and the socket
\* stay up and no receiver lags.
C15_EndToEndPublicDelivery ==
    /\ [][\A s \in Sessions :
            (BetweenFrames(s) /\ sess'[s].frames > sess[s].frames)
            => \A db \in DbOutcomes :
                 text_frame(s, ClientText("pusher:subscribe", ROOM, NoAuth, NoData),
                            "ok", db)
                 => subscribe_frame(s, ROOM, NoAuth, NoData, db)]_vars
    /\ [](\A s \in Sessions :
            sess[s].wire # <<>>
            => sess[s].wire[1] = ConnectionEstablishedFrame(generate_socket_id(s)))
    /\ \A s \in WireSessions :
          (Undelivered(s) # {}) ~> (Undelivered(s) = {} \/ ~PathUp(s))

\* C16: on every socket the first frame written is connection_established
\* with the Session's socket id and no other frame is written or queued before
\* it; the step out of Connecting either writes it, spawns the Writer Task and
\* enters Established, or (the write failed) enters Closed with no Writer
\* Task and the Hub, the Roster and the audit store untouched; and a Session
\* closed that way has taken no inbound frame, has subscribed to nothing, has
\* spawned nothing and has made no Hub or Roster call.
C16_Handshake ==
    /\ [](\A s \in Sessions :
            /\ sess[s].wire # <<>>
               => /\ sess[s].wire[1] =
                        [event |-> "connection_established",
                         socket_id |-> generate_socket_id(s)]
                  /\ \A j \in 2 .. Len(sess[s].wire) :
                        sess[s].wire[j].event # "connection_established"
            /\ sess[s].state = "Connecting"
               => sess[s].wire = <<>> /\ sess[s].queue = <<>>
                  /\ sess[s].writer = "none" /\ sess[s].frames = 0
            /\ (sess[s].state # "Connecting" /\ sess[s].wire = <<>>)
               => /\ sess[s].state = "Closed"
                  /\ sess[s].writer = "none"
                  /\ sess[s].frames = 0
                  /\ sess[s].queue = <<>>
                  /\ sess[s].subscribed = {}
                  /\ sess[s].forwarders = {}
                  /\ sess[s].closeRemoved = <<>>
                  /\ hubCall[s].pc = "idle")
    /\ [][\A s \in Sessions :
            (sess[s].state = "Connecting" /\ sess'[s] # sess[s])
            => IF sess'[s].wire = <<>>
               THEN /\ sess'[s].state = "Closed"
                    /\ sess'[s].writer = "none"
                    /\ UNCHANGED <<hubVars, rosterVars, audit>>
               ELSE /\ sess'[s].state = "Established"
                    /\ sess'[s].writer = "running"
                    /\ Len(sess'[s].wire) = 1]_vars

C16_Witness_ClosedByFailedHandshake ==
    /\ sess[1].state = "Closed"
    /\ sess[1].wire = <<>>
    /\ sess[1].domain_id.some
    /\ sess[1].writer = "none"

\* The step is the return, with an error, of a bus call made for the Subscribe
\* frame session s is handling: Hub subscribe, add_member or list_members.
BusCallFails(s) ==
    /\ sess[s].pc # "idle"
    /\ \/ subscribe_returns(s, FALSE, "ok")
       \/ \E outcome \in BusOutcomes \ {"ok"} : add_member_returns(s, outcome)
       \/ list_members_returns(s, FALSE)

\* C17: every step in which a bus call made for a Subscribe frame (Hub
\* subscribe, Roster add_member, Roster list_members) returns an error sends a
\* pusher:error frame with code 4009 into the outbound queue and leaves the
\* Session Established.
C17_BusErrorsSendErrorFrame ==
    [][\A s \in Sessions :
          BusCallFails(s)
          => /\ sess'[s].state = "Established"
             /\ sess[s].writer = "running"
                => /\ Len(sess'[s].queue) = Len(sess[s].queue) + 1
                   /\ sess'[s].queue[Len(sess'[s].queue)].event = "pusher:error"
                   /\ sess'[s].queue[Len(sess'[s].queue)].code = 4009]_vars

\* C18: a Session takes a client frame only when the handling of the frame
\* before it is over (it is Established and in no bus or database call), one
\* frame at a time; and what the Writer Task has written to the socket after
\* the handshake is, in order, the first strings of the outbound queue, each
\* once, and all of those it has taken as long as no write has failed.
C18_PerSocketOrdering ==
    /\ [][\A s \in Sessions :
            sess'[s].frames # sess[s].frames
            => /\ sess[s].state = "Established"
               /\ sess[s].pc = "idle"
               /\ sess[s].pending = NoPending
               /\ sess'[s].frames = sess[s].frames + 1]_vars
    /\ [](\A s \in Sessions :
            sess[s].wire # <<>>
            => /\ Len(sess[s].wire) - 1 <= Len(sess[s].queue)
               /\ \A j \in 1 .. Len(sess[s].wire) - 1 :
                     sess[s].wire[j + 1] = sess[s].queue[j]
               /\ sess[s].writer # "failed" => sess[s].taken = Len(sess[s].wire) - 1
               /\ sess[s].writer = "failed" => sess[s].taken = Len(sess[s].wire))

C18_Witness_TwoFramesWrittenInOrder ==
    /\ Len(sess[1].wire) = 3
    /\ Len(sess[1].queue) = 2
    /\ sess[1].queue[1].event = "pusher:pong"
    /\ sess[1].queue[2].event = "pusher_internal:subscription_succeeded"
    /\ sess[1].wire[2].event = "pusher:pong"
    /\ sess[1].wire[3].event = "pusher_internal:subscription_succeeded"

\* The step is one in which the main loop of session s calls tx.send: a Ping,
\* a Subscribe that ends at once with an error frame or a sub_ok, or the
\* return of the Hub or of list_members with the frame that follows it.
MainLoopSends(s) ==
    \/ ping_frame(s)
    \/ /\ sess'[s].frames > sess[s].frames
       /\ sess'[s].pc = "idle"
       /\ \E text \in ClientTexts(s), db \in DbOutcomes :
             /\ from_str(text) = "Subscribe"
             /\ subscribe_frame(s, text.channel, text.auth, text.channel_data, db)
    \/ /\ sess[s].pc = "adapter"
       /\ sess'[s].pc = "idle"
       /\ \E ok \in BOOLEAN, db \in DbOutcomes : subscribe_returns(s, ok, db)
    \/ \E ok \in BOOLEAN : list_members_returns(s, ok)

\* C19: once the Writer Task has ended on a failed write, the next step in
\* which the Session's main loop sends a frame into the outbound queue takes
\* the Session to Closing.
C19_TerminationOnSendError ==
    [][\A s \in Sessions :
          (sess[s].writer = "failed" /\ sess[s].state = "Established"
           /\ MainLoopSends(s))
          => sess'[s].state = "Closing"]_vars

\* C20: after a Session has terminated (it is Closed and its outbound queue
\* is dropped with the Writer Task), every Forwarder Task it spawned
\* eventually exits.
C20_ForwarderTeardown ==
    \A s \in WireSessions :
        (sess[s].state = "Closed")
        ~> (\A r \in sess[s].forwarders : ~ForwarderRunning(s, r))

\* The payloads of a sequence are in the order the bus published them.
InBusOrder(q) == \A i, j \in 1 .. Len(q) : i < j => q[i].data < q[j].data

\* C21: lagging-reader policy: when a Hub receiver for channel C falls more
\* than 64 messages behind, only its oldest unread messages are lost; its
\* reader keeps receiving, in order, the payloads the Hub broadcasts on C
\* afterwards: no reader's loop ends for having fallen behind, and what a
\* reader has got is in bus order.
C21_LaggingReaderKeepsReceiving ==
    \A r \in 1 .. Len(receivers) :
        /\ receivers[r].exit # "lagged"
        /\ InBusOrder(receivers[r].got)

\* C22: the Hub's per-channel forwarder task stops only when the adapter's
\* sequence for that channel ends, at whatever rate the adapter yields: a
\* stopped forwarder's bus stream has ended and every payload the adapter
\* yielded was sent into the channel's broadcast.
C22_HubForwarderStopsOnlyAtEnd ==
    \A u \in 1 .. Len(upstreams) :
        ~upstreams[u].fwdAlive
        => /\ ~upstreams[u].open
           /\ upstreams[u].hlog = upstreams[u].abuf

\* The key is the legacy app_key or the key of a currently active domain.
Authorized(key) ==
    key = app_key \/ \E r \in domains : r.key = key /\ r.is_active

OpenUpstreams(c) ==
    {u \in 1 .. Len(upstreams) : upstreams[u].channel = c /\ upstreams[u].open}

\* The payloads of a sequence
Payloads(q) == {q[i] : i \in 1 .. Len(q)}

\* C24: Hub broadcast(channel, event, data) performs exactly one adapter
\* publish of the wire event {event, channel, data} and returns the adapter's
\* delivered count; it never writes directly into the local broadcast for the
\* channel, so a local receiver sees the event only if the bus delivers it to
\* this process's upstream subscription, and then exactly once per bus
\* delivery.
C24_BroadcastOnlyThroughBus ==
    /\ [][(httpCall'.turn # httpCall.turn /\ httpCall'.status \in {200, 503})
          => LET c == httpCall'.channel
             IN  /\ upstreams' = upstreams
                 /\ receivers' = receivers
                 /\ subscribers' = subscribers
                 /\ \A d \in Channels \ {c} : published'[d] = published[d]
                 /\ IF httpCall'.status = 200
                    THEN /\ published'[c] =
                              Append(published[c],
                                     WsEventJson(httpCall'.event, c,
                                                 Len(published[c]) + 1))
                         /\ httpCall'.subscriber_count
                              = Cardinality(OpenUpstreams(c))
                    ELSE published'[c] = published[c]]_vars
    /\ [](\A r \in 1 .. Len(receivers) :
            LET rx == receivers[r]
                up == upstreams[rx.bc]
            IN  /\ Payloads(rx.got) \subseteq Payloads(up.abuf)
                /\ Payloads(up.abuf) \subseteq Payloads(published[up.channel])
                /\ \A i, j \in 1 .. Len(rx.got) : i < j => rx.got[i] # rx.got[j])

\* C24 witness: a broadcast returned the count of two bus deliveries (the
\* channel was subscribed at the bus twice) and a local receiver has got its
\* payload once.
C24_Witness_CountedAndReceivedOnce ==
    /\ httpCall.status = 200
    /\ httpCall.subscriber_count = 2
    /\ \E r \in 1 .. Len(receivers) :
          /\ upstreams[receivers[r].bc].channel = httpCall.channel
          /\ Len(receivers[r].got) = 1

\* host is the lowercased text of origin between the scheme prefix and the
\* first "/" (or the end).
HostBetween(origin, prefix, host) ==
    LET n == Len(host)
        k == Len(prefix)
    IN  /\ starts_with(origin, prefix)
        /\ k + n <= Len(origin)
        /\ \A i \in 1 .. n : origin[k + i] # SLASH /\ host[i] = lower(origin[k + i])
        /\ k + n = Len(origin) \/ origin[k + n + 1] = SLASH

\* C25: origin matching: for an exact domain pattern, domain_matches holds iff
\* the lowercased pattern equals the origin host; for a pattern "*.d" it holds
\* iff the origin host ends with d; parse_origin_host returns the lowercased
\* text between the "http://" or "https://" prefix and the first "/", and
\* rejects any origin without one of those scheme prefixes.
C25_OriginMatching ==
    LET p == originCall.pattern
        h == originCall.host
        o == originCall.origin
    IN  /\ (originCall.op = "match" /\ ~starts_with(p, <<STAR>>))
           => (originCall.matches <=> to_lowercase(p) = h.val)
        /\ (originCall.op = "match" /\ starts_with(p, <<STAR, DOT>>))
           => (originCall.matches
                 <=> \E n \in 0 .. Len(h.val) :
                        SubSeq(h.val, n + 1, Len(h.val)) = SubSeq(p, 3, Len(p)))
        /\ originCall.op = "parse"
           => IF starts_with(o, HTTP_PREFIX) \/ starts_with(o, HTTPS_PREFIX)
              THEN /\ h.some
                   /\ \E prefix \in {HTTP_PREFIX, HTTPS_PREFIX} :
                         HostBetween(o, prefix, h.val)
              ELSE h = None

\* C25 witness: a wildcard pattern matched a host that ends with its domain
\* without being below it ("*.a.io" and "xa.io").
C25_Witness_WildcardMatchesSuffix ==
    /\ originCall.op = "match"
    /\ originCall.pattern = WILD_A
    /\ originCall.host = Some(<<"x", "a", ".", "i", "o">>)
    /\ originCall.matches

\* The upgrade request supplied an API key that resolves to an active domain
\* whose name matches the Origin.
ResolvesAndMatches(call) ==
    /\ call.api_key.some
    /\ call.origin.some
    /\ \E r \in domains :
          /\ r.key = call.api_key.val
          /\ r.is_active
          /\ call.domain_id.val = r.id
          /\ LET host == parse_origin_host(to_lowercase(call.origin.val))
             IN  host.some /\ domain_matches(r.domain_name, host.val)

\* The audit rows written for socket s
AuditRowsOf(s) ==
    {i \in 1 .. Len(audit.connections) :
        audit.connections[i].socket_id = generate_socket_id(s)}

\* C26: a Session has a domain id if and only if the upgrade supplied an API
\* key that resolved to an active domain whose pattern matched the Origin; a
\* Session without a domain id performs no audit-store write (no
\* channel_ensure, no connection insert, no mark-disconnected) for any
\* sequence of frames and on termination.
C26_DomainIdIffKeyResolved ==
    /\ [][\A s \in UpgradeSessions :
            (upgradeCall'[s] # upgradeCall[s]
             /\ upgradeCall'[s].status = SWITCHING_PROTOCOLS)
            => (upgradeCall'[s].domain_id.some
                  <=> ResolvesAndMatches(upgradeCall'[s]))]_vars
    /\ [](\A s \in UpgradeSessions :
            sess[s].state # "Connecting"
            => /\ upgradeCall[s].status = SWITCHING_PROTOCOLS
               /\ sess[s].domain_id = upgradeCall[s].domain_id
               /\ ~sess[s].domain_id.some
                  => /\ sess[s].dbCalls = 0
                     /\ AuditRowsOf(s) = {}
                     /\ audit = NoAudit)

\* C26 witness: a Session of an upgrade without a key has handled two frames,
\* one of them a Subscribe that spawned a Forwarder Task, has unsubscribed and
\* is Closed, and it has issued no audit-store statement.
C26_Witness_NoKeyNoAudit ==
    \E s \in UpgradeSessions :
        /\ ~upgradeCall[s].api_key.some
        /\ upgradeCall[s].origin = Some(ORIGIN_C)
        /\ sess[s].state = "Closed"
        /\ sess[s].frames = 2
        /\ sess[s].forwarders # {}
        /\ sess[s].subscribed = {}
        /\ sess[s].dbCalls = 0

\* Every member listed for channel c carries the user id of its own socket,
\* so that the members of different sockets have distinct user ids.
OwnUserIds(c) ==
    \A s \in Sessions :
        generate_socket_id(s) \in DOMAIN list_members(c)
        => list_members(c)[generate_socket_id(s)].user_id = UserOf(s)

\* Session s is subscribed to channel c: c is in its subscribed set and it was
\* sent subscription_succeeded for c.
SubscribedTo(s, c) ==
    /\ c \in sess[s].subscribed
    /\ \E i \in 1 .. Len(sess[s].queue) :
          /\ sess[s].queue[i].event = "pusher_internal:subscription_succeeded"
          /\ sess[s].queue[i].channel = c

\* C27: presence join/leave across two sockets: when two Sessions with
\* distinct user ids are both subscribed to the same Presence channel and one
\* of them closes, list_members for the channel afterwards contains the other
\* Session's member and no member of the closed socket.
C27_PresenceLeaveAcrossSockets ==
    \A s, t \in Sessions :
        \A c \in SessChannels :
            (/\ s # t
             /\ from_name(c) = "Presence"
             /\ sess[s].state = "Closed"
             /\ SubscribedTo(s, c)
             /\ BetweenFrames(t)
             /\ SubscribedTo(t, c)
             /\ OwnUserIds(c))
            => /\ generate_socket_id(t) \in DOMAIN list_members(c)
               /\ generate_socket_id(s) \notin DOMAIN list_members(c)

\* The text frames of socket s that are no ClientMessage: text that is not
\* JSON, an unknown event tag, or a Subscribe or Unsubscribe without its data.
UnparsedTexts(s) ==
    {text \in ClientTexts(s) :
        \/ ~text.json
        \/ text.event \notin {"subscribe", "unsubscribe", "ping"}
        \/ text.event \in {"subscribe", "unsubscribe"} /\ ~text.has_data}

\* C28: frames the Session ignores: a text frame that does not parse as a
\* ClientMessage (malformed JSON, unknown event tag, missing data) and any
\* binary, ping or pong frame cause no outbound frame and no change to the
\* subscribed set, the Hub, the Roster or the audit store, and the Session
\* stays in Established; a Close frame leaves the receive loop and runs
\* Closing.
C28_IgnoredFrames ==
    [][\A s \in Sessions :
          /\ (BetweenFrames(s) /\ sess'[s].frames > sess[s].frames
              /\ (ignored_frame(s)
                  \/ \E text \in UnparsedTexts(s) : text_frame(s, text, "ok", "ok")))
             => /\ sess'[s] = [sess[s] EXCEPT !.frames = @ + 1]
                /\ sess'[s].state = "Established"
                /\ UNCHANGED <<hubVars, rosterVars, audit>>
          /\ (BetweenFrames(s) /\ terminate(s, "close_frame"))
             => /\ sess'[s].state = "Closing"
                /\ sess'[s].todo = sess[s].subscribed]_vars

\* C28 witness: a Session with a domain id that subscribed has handled a
\* second frame and is still Established, with one frame queued, one row in
\* the audit store and its one Forwarder Task as they were.
C28_Witness_SecondFrameIgnored ==
    \E s \in WireSessions :
        /\ sess[s].state = "Established"
        /\ sess[s].pc = "idle"
        /\ sess[s].domain_id.some
        /\ sess[s].frames = 2
        /\ Len(sess[s].queue) = 1
        /\ sess[s].subscribed = {ROOM}
        /\ sess[s].dbCalls = 2
        /\ Len(audit.connections) = 1
        /\ audit.connections[1].status = "connected"

\* C29: no replay: a Hub receiver obtained by subscribe(C) observes only
\* payloads that the Hub forwarder sent into C's broadcast after the receiver
\* was created, in the order they were sent; a payload published and
\* forwarded before that point is never delivered to it.
C29_NoReplay ==
    \A r \in 1 .. Len(receivers) :
        LET rx == receivers[r]
            hlog == upstreams[rx.bc].hlog
        IN  /\ rx.attach + Len(rx.got) <= Len(hlog)
            /\ \A i \in 1 .. Len(rx.got) : rx.got[i] = hlog[rx.attach + i]
            /\ \A j \in 1 .. rx.attach :
                  \A i \in 1 .. Len(rx.got) : rx.got[i] # hlog[j]

\* C29 witness: a receiver created after the first payload of its channel was
\* forwarded has got the second payload and not the first, which a receiver
\* created earlier on the same broadcast has got.
C29_Witness_LateReceiverMissesFirst ==
    \E r, q \in 1 .. Len(receivers) :
        /\ receivers[r].bc = receivers[q].bc
        /\ receivers[q].attach = 0
        /\ receivers[r].attach = 1
        /\ Len(receivers[q].got) = 2
        /\ receivers[r].got = <<receivers[q].got[2]>>
        /\ receivers[q].got[1] # receivers[q].got[2]

\* The channel a Hub receiver listens to
ChannelOf(r) == upstreams[receivers[r].bc].channel

\* C30: Unsubscribe handling: processing Unsubscribe for channel C calls
\* Roster remove_member(C, socket_id) iff C is Presence, removes C from the
\* subscribed set, enqueues no frame, and does not stop the Forwarder Task for
\* C, so that a payload the Forwarder Task of an unsubscribed channel receives
\* while the outbound queue is open is still enqueued to that socket.
C30_UnsubscribeHandling ==
    [][\A s \in WireSessions :
          /\ \A c \in SessChannels :
                (\E outcome \in BusOutcomes, db \in DbOutcomes :
                     unsubscribe_frame(s, c, outcome, db))
                => /\ sess'[s].subscribed = sess[s].subscribed \ {c}
                   /\ sess'[s].queue = sess[s].queue
                   /\ sess'[s].forwarders = sess[s].forwarders
                   /\ UNCHANGED hubVars
                   /\ IF from_name(c) = "Presence"
                      THEN \E outcome \in BusOutcomes :
                               remove_member(c, generate_socket_id(s), outcome)
                      ELSE UNCHANGED rosterVars
          /\ \A r \in sess[s].forwarders :
                (/\ ChannelOf(r) \notin sess[s].subscribed
                 /\ sess[s].writer = "running"
                 /\ receivers'[r].next > receivers[r].next)
                => sess'[s].queue =
                     Append(sess[s].queue,
                            upstreams[receivers[r].bc].hlog[receivers[r].next + 1])]_vars

\* C30 witness: a socket that subscribed to a Presence channel and then
\* unsubscribed is in no channel and in no Roster, its Forwarder Task still
\* runs, and a payload broadcast on the channel is in its queue after the
\* subscription_succeeded frame.
C30_Witness_PayloadAfterUnsubscribe ==
    \E s \in WireSessions :
        /\ sess[s].state = "Established"
        /\ sess[s].frames = 2
        /\ sess[s].subscribed = {}
        /\ DOMAIN rosterHash[PRESENCE_A] = {}
        /\ \E r \in sess[s].forwarders : ForwarderRunning(s, r) /\ ChannelOf(r) = PRESENCE_A
        /\ Len(sess[s].queue) = 2
        /\ sess[s].queue[1].event = "pusher_internal:subscription_succeeded"
        /\ sess[s].queue[2] = published[PRESENCE_A][1]

\* C31: Hub subscribe failure: when the adapter's subscribe fails for a
\* channel with no Hub entry, Hub subscribe returns the error and leaves the
\* map without an entry for that channel; the Session then enqueues one
\* 'Subscribe failed' pusher:error frame, does not add the channel to its
\* subscribed set, spawns no Forwarder Task, and makes no Roster or audit
\* write.
C31_HubSubscribeFailure ==
    [][\A s \in WireSessions :
          LET c == sess[s].pending.channel
          IN  (/\ sess[s].pc = "adapter"
               /\ sess'[s].pc # "adapter"
               /\ hubStats'[c].errReturns > hubStats[c].errReturns)
              => /\ subscribers[c] = 0 /\ subscribers' = subscribers
                 /\ upstreams' = upstreams /\ receivers' = receivers
                 /\ sess'[s].queue = tx_send(s, SubscribeFailedFrame)
                 /\ sess'[s].subscribed = sess[s].subscribed
                 /\ sess'[s].forwarders = sess[s].forwarders
                 /\ sess'[s].dbCalls = sess[s].dbCalls
                 /\ sess'[s].pc = "idle"
                 /\ UNCHANGED <<rosterVars, audit>>]_vars

\* C31 witness: the first Subscribe of a socket with a domain id failed at the
\* adapter and its second Subscribe to the same channel called the adapter
\* again and succeeded: the queue holds the error frame, then
\* subscription_succeeded.
C31_Witness_RetryAfterFailure ==
    \E s \in WireSessions :
        /\ sess[s].domain_id.some
        /\ hubStats[ROOM].errReturns = 1
        /\ hubStats[ROOM].adapterCalls = 2
        /\ subscribers[ROOM] # 0
        /\ sess[s].subscribed = {ROOM}
        /\ Len(sess[s].queue) = 2
        /\ sess[s].queue[1] = SubscribeFailedFrame
        /\ sess[s].queue[2].event = "pusher_internal:subscription_succeeded"
        /\ Cardinality(sess[s].forwarders) = 1
        /\ sess[s].dbCalls = 2

\* The sockets whose last Roster call on channel c was an add_member that
\* returned Ok.
Joined(c) == {s \in Sessions : memberLog[c][s].op = "add"}

\* C32: Roster members are keyed by socket id within a channel: two sockets
\* joining channel C with the same user id yield two members, removing one
\* socket leaves the other's entry (and that user id) in list_members(C); a
\* second add_member for the same (C, socket) replaces the first entry instead
\* of adding another.
C32_MembersKeyedBySocket ==
    /\ [](\A c \in RosterChannels :
            /\ \A s \in Sessions :
                  LET sid == generate_socket_id(s)
                  IN  /\ memberLog[c][s].op = "add"
                         => /\ sid \in DOMAIN list_members(c)
                            /\ list_members(c)[sid].user_id = memberLog[c][s].user_id
                      /\ memberLog[c][s].op = "remove"
                         => sid \notin DOMAIN list_members(c)
            /\ list_members_len(c) >= Cardinality(Joined(c))
            /\ list_members_len(c) <= NSessions)
    /\ [][\A c \in RosterChannels, s \in Sessions :
            memberLog'[c][s] # memberLog[c][s]
            => /\ \A t \in Sessions \ {s} :
                     LET tid == generate_socket_id(t)
                     IN  /\ tid \in DOMAIN rosterHash'[c] <=> tid \in DOMAIN rosterHash[c]
                         /\ tid \in DOMAIN rosterHash[c]
                            => rosterHash'[c][tid] = rosterHash[c][tid]
               /\ (/\ memberLog'[c][s].op = "add"
                   /\ generate_socket_id(s) \in DOMAIN rosterHash[c])
                  => Cardinality(DOMAIN rosterHash'[c]) = Cardinality(DOMAIN rosterHash[c])]_vars

\* C32 witness: two sockets have joined the channel with the same user id and
\* list_members returns two members with that one user id.
C32_Witness_SameUserTwoSockets ==
    \E c \in RosterChannels, u \in RosterUsers :
        /\ \A s \in Sessions : memberLog[c][s] = [op |-> "add", user_id |-> u]
        /\ list_members_len(c) = 2
        /\ list_members_ids(c) = {u}

\* C33: audit writes are best-effort: in a domain-authenticated Session, a
\* failure of channel_ensure or of the audit-row insert during Subscribe does
\* not change the outcome of the Subscribe: the channel is still in the
\* subscribed set, the subscription_succeeded frame is still enqueued and the
\* Forwarder Task is still spawned (for a Presence channel the arm goes on to
\* add_member with the receiver it got, as it does when the audit succeeds).
C33_AuditBestEffort ==
    [][\A s \in WireSessions, c \in SessChannels :
          (/\ sess[s].domain_id.some
           /\ hubStats'[c].okReturns > hubStats[c].okReturns
           /\ Len(audit'.connections) = Len(audit.connections))
          => /\ sess'[s].dbCalls > sess[s].dbCalls
             /\ sess'[s].subscribed = sess[s].subscribed \cup {c}
             /\ Len(receivers') = Len(receivers) + 1
             /\ IF from_name(c) = "Presence"
                THEN /\ sess'[s].pc = "add_member"
                     /\ sess'[s].pending.channel = c
                     /\ sess'[s].pending.rx = Len(receivers')
                     /\ sess'[s].queue = sess[s].queue
                ELSE /\ sess'[s].pc = "idle"
                     /\ sess'[s].queue = tx_send(s, SubOkFrame(c))
                     /\ sess'[s].forwarders = sess[s].forwarders \cup {Len(receivers')}]_vars

\* C33 witness: in a Session with a domain id channel_ensure failed during the
\* Subscribe, so that the audit store is empty after one statement, and the
\* channel is subscribed, subscription_succeeded is queued and the Forwarder
\* Task runs.
C33_Witness_SubscribedWithoutAuditRow ==
    \E s \in WireSessions :
        /\ sess[s].domain_id.some
        /\ sess[s].dbCalls = 1
        /\ audit = NoAudit
        /\ sess[s].subscribed = {ROOM}
        /\ sess[s].queue = <<SubOkFrame(ROOM)>>
        /\ \E r \in sess[s].forwarders : ForwarderRunning(s, r)

\* C34: Hub unsubscribe(C) removes only the map entry for C and leaves every
\* other channel's entry unchanged; it is never invoked by the Session code
\* path, so no step of a Session, of an HTTP broadcast or of a task they
\* spawned removes or replaces a Hub entry: an entry leaves the map in an
\* unsubscribe step only.
C34_EntryLeavesOnlyByUnsubscribe ==
    [][\A c \in Channels :
          /\ hubStats'[c].unsubs > hubStats[c].unsubs
             => /\ subscribers'[c] = 0
                /\ \A d \in Channels \ {c} : subscribers'[d] = subscribers[d]
                /\ UNCHANGED <<upstreams, receivers, published, sess, httpCall>>
          /\ (subscribers[c] # 0 /\ subscribers'[c] # subscribers[c])
             => hubStats'[c].unsubs > hubStats[c].unsubs
          /\ (sess' # sess \/ httpCall' # httpCall \/ upstreams' # upstreams
                \/ receivers' # receivers)
             => hubStats'[c].unsubs = hubStats[c].unsubs]_vars

\* C34 witness: a socket subscribed to two channels, unsubscribed from none at
\* the Hub, and a task called Hub unsubscribe for one of them: that entry is
\* gone and the other is still in the map.
C34_Witness_OtherEntryKept ==
    /\ hubStats[ROOM].unsubs = 1
    /\ hubStats[PRIVATE_A].unsubs = 0
    /\ hubStats[ROOM].adapterOk = 1
    /\ subscribers[ROOM] = 0
    /\ subscribers[PRIVATE_A] # 0
    /\ \E s \in WireSessions : sess[s].subscribed = {ROOM, PRIVATE_A}

\* The Subscribe texts of socket s for channel c whose auth verifies for c,
\* the socket id of s and the channel_data of the same text.
VerifiedTexts(s, c) ==
    {text \in ClientTexts(s) :
        /\ from_str(text) = "Subscribe"
        /\ text.channel = c
        /\ verify_channel_auth(c, generate_socket_id(s), text.auth,
                               channel_data_string(text.channel_data)) = "Ok"}

\* In this step the Hub returns a receiver for c, the socket id of s enters
\* the Roster of c, or subscription_succeeded for c is sent into the queue of s.
Gains(s, c) ==
    \/ hubStats'[c].okReturns > hubStats[c].okReturns
    \/ generate_socket_id(s) \in rosterSet'[c] \ rosterSet[c]
    \/ generate_socket_id(s) \in DOMAIN rosterHash'[c] \ DOMAIN rosterHash[c]
    \/ /\ Len(sess'[s].queue) > Len(sess[s].queue)
       /\ sess'[s].queue[Len(sess'[s].queue)].event = "pusher_internal:subscription_succeeded"
       /\ sess'[s].queue[Len(sess'[s].queue)].channel = c

\* C35: no unauthenticated access: a Session obtains a Hub receiver for a
\* Private or Presence channel C, is added to the Presence Roster of C, or is
\* sent subscription_succeeded for C only in the handling of a Subscribe frame
\* whose auth verified for C, the Session's own socket id and the channel_data
\* of that frame: in the step that handles the frame, or in a later step of
\* the same arm; a Subscribe frame whose auth does not verify starts no arm
\* and gains nothing.
C35_NoUnauthenticatedAccess ==
    [][\A s \in WireSessions :
          /\ \A c \in {x \in SessChannels : is_private(from_name(x))} :
                Gains(s, c)
                => \/ sess[s].pc # "idle" /\ sess[s].pending.channel = c
                   \/ /\ BetweenFrames(s)
                      /\ \E text \in VerifiedTexts(s, c), db \in DbOutcomes :
                            text_frame(s, text, "ok", db)
          /\ (/\ sess[s].pc = "idle"
              /\ sess'[s].pc \in {"adapter", "add_member", "list_members"}
              /\ is_private(from_name(sess'[s].pending.channel)))
             => /\ BetweenFrames(s)
                /\ \E text \in VerifiedTexts(s, sess'[s].pending.channel), db \in DbOutcomes :
                      /\ text.channel_data = sess'[s].pending.data
                      /\ text_frame(s, text, "ok", db)
          /\ (BetweenFrames(s) /\ sess'[s].frames > sess[s].frames)
             => \A text \in AuthFailingTexts(s) :
                   text_frame(s, text, "ok", "ok")
                   => /\ ~Gains(s, text.channel)
                      /\ sess'[s].pc = "idle"]_vars

\* C35 witness: a socket whose first Subscribe to a Presence channel carried
\* no valid auth and whose second carried the auth signed for its own socket
\* id: the error frame, then subscription_succeeded with its own member.
C35_Witness_AccessAfterVerify ==
    \E s \in WireSessions :
        /\ Len(sess[s].queue) = 2
        /\ sess[s].queue[1] = AuthFailedFrame
        /\ sess[s].queue[2].event = "pusher_internal:subscription_succeeded"
        /\ sess[s].queue[2].channel = PRESENCE_A
        /\ generate_socket_id(s) \in DOMAIN rosterHash[PRESENCE_A]
        /\ sess[s].subscribed = {PRESENCE_A}
        /\ \E r \in sess[s].forwarders : ForwarderRunning(s, r)

\* C36: once the Hub has returned a receiver to a Subscribe, the
\* subscription_succeeded frame for channel C is enqueued before the Forwarder
\* Task for that subscription is spawned, so every forwarded payload of C
\* written to the socket comes after a subscription_succeeded for C.
C36_SubscriptionSucceededFirst ==
    \A s \in WireSessions :
        \A i \in 1 .. Len(sess[s].wire) :
            sess[s].wire[i].event \in Events
            => \E j \in 1 .. i - 1 :
                  /\ sess[s].wire[j].event = "pusher_internal:subscription_succeeded"
                  /\ sess[s].wire[j].channel = sess[s].wire[i].channel

\* The Forwarder Tasks socket s runs for channel c
ForwardersFor(s, c) ==
    {r \in sess[s].forwarders : ForwarderRunning(s, r) /\ ChannelOf(r) = c}

\* The Subscribe frames for channel c the one socket has processed to their
\* end with a receiver from the Hub: the Hub's Ok returns for c, less the
\* Subscribe whose presence branch is in progress.
SubscribesDone(s, c) ==
    hubStats[c].okReturns
      - (IF sess[s].pc \in {"add_member", "list_members"} /\ sess[s].pending.channel = c
         THEN 1 ELSE 0)

\* How often frame f is in sequence q
TimesIn(q, f) == Cardinality({i \in 1 .. Len(q) : q[i] = f})

\* C37: forwarder multiplicity: after a Session has processed n successful
\* Subscribe frames for the same channel C (with or without Unsubscribe frames
\* in between), it runs n Forwarder Tasks for C while its subscribed set holds
\* C at most once, so each payload broadcast on C is enqueued to that socket
\* once by every Forwarder Task that has received it: n times when all have.
C37_ForwarderMultiplicity ==
    \A s \in WireSessions, c \in SessChannels :
        /\ Cardinality(ForwardersFor(s, c)) = SubscribesDone(s, c)
        /\ Cardinality(sess[s].subscribed \cap {c}) <= 1
        /\ sess[s].writer = "running"
           => \A i \in 1 .. Len(published[c]) :
                 TimesIn(sess[s].queue, published[c][i])
                   = Cardinality({r \in ForwardersFor(s, c) :
                        \E j \in 1 .. Len(receivers[r].got) :
                            receivers[r].got[j] = published[c][i]})

\* C37 witness: three frames handled, two of them Subscribes to the same
\* channel that succeeded and one an Unsubscribe before the second: the
\* channel is subscribed once, two Forwarder Tasks run and the one payload
\* broadcast afterwards is in the queue twice.
C37_Witness_PayloadTwice ==
    \E s \in WireSessions :
        /\ sess[s].frames = 3
        /\ hubStats[ROOM].okReturns = 2
        /\ sess[s].subscribed = {ROOM}
        /\ Cardinality(ForwardersFor(s, ROOM)) = 2
        /\ Len(published[ROOM]) = 1
        /\ Len(sess[s].queue) = 4
        /\ sess[s].queue = <<SubOkFrame(ROOM), SubOkFrame(ROOM),
                             published[ROOM][1], published[ROOM][1]>>

\* What the Roster stores for socket t in channel c: whether its id is in the
\* set, and its entry of the hash if it has one.
RosterEntry(set, hash, c, t) ==
    [in_set |-> generate_socket_id(t) \in set[c],
     member |-> IF generate_socket_id(t) \in DOMAIN hash[c]
                THEN Some(hash[c][generate_socket_id(t)]) ELSE None]

\* C38: Roster isolation between sockets: every add_member and remove_member
\* a Session issues uses that Session's own socket id, so no sequence of
\* frames from one socket (including Unsubscribe for a channel it never
\* joined) can add, overwrite or remove the Roster entry of another socket:
\* what the Roster stores for a socket changes only in a step of that
\* socket's own Session, and the entry it stores carries that socket's id.
C38_RosterIsolation ==
    /\ [][\A t \in Sessions, c \in Channels :
            RosterEntry(rosterSet', rosterHash', c, t) # RosterEntry(rosterSet, rosterHash, c, t)
            => /\ sess'[t] # sess[t]
               /\ \A s \in Sessions \ {t} : sess'[s] = sess[s]]_vars
    /\ [](\A c \in Channels :
            /\ rosterSet[c] \subseteq {generate_socket_id(t) : t \in Sessions}
            /\ \A x \in DOMAIN rosterHash[c] :
                  /\ x \in {generate_socket_id(t) : t \in Sessions}
                  /\ rosterHash[c][x].socket_id = x)

\* C38 witness: socket 1 has joined a Presence channel and socket 2, which
\* never joined it, has handled a frame that left it with no subscription and
\* no frame in its queue (an Unsubscribe for the channel does): the entry of
\* socket 1 is in the Roster.
C38_Witness_OtherEntryUntouched ==
    /\ sess[1].subscribed = {PRESENCE_A}
    /\ sess[1].pc = "idle"
    /\ generate_socket_id(1) \in DOMAIN rosterHash[PRESENCE_A]
    /\ generate_socket_id(1) \in rosterSet[PRESENCE_A]
    /\ sess[2].state = "Established"
    /\ sess[2].frames = 1
    /\ sess[2].subscribed = {}
    /\ sess[2].queue = <<>>
    /\ ~InRoster(PRESENCE_A, generate_socket_id(2))

\* The sockets with an entry in the hash of channel c
Members(c) == {t \in Sessions : generate_socket_id(t) \in DOMAIN rosterHash[c]}

\* C39: concurrent presence joins: each presence subscription_succeeded frame
\* is built from a list_members call made after the Session's own add_member
\* succeeded, so when list_members succeeds its count is at least 1 and its
\* ids include the subscriber's own user id; it reports every socket whose
\* add_member succeeded before the call, so of two Sessions joining the same
\* Presence channel the one whose list_members comes later reports both.
C39_ConcurrentPresenceJoins ==
    /\ [](\A s \in Sessions :
            sess[s].pc = "list_members"
            => /\ s \in Members(sess[s].pending.channel)
               /\ rosterHash[sess[s].pending.channel][generate_socket_id(s)].user_id
                    = user_id_of(sess[s].pending.data))
    /\ [][\A s \in Sessions :
            (sess[s].pc = "list_members" /\ list_members_returns(s, TRUE)
               /\ Len(sess'[s].queue) > Len(sess[s].queue))
            => LET f == sess'[s].queue[Len(sess'[s].queue)]
                   c == sess[s].pending.channel
               IN  /\ f.event = "pusher_internal:subscription_succeeded"
                   /\ f.channel = c
                   /\ f.count >= 1
                   /\ user_id_of(sess[s].pending.data) \in f.ids
                   /\ f.count = Cardinality(Members(c))
                   /\ \A t \in Members(c) :
                         rosterHash[c][generate_socket_id(t)].user_id \in f.ids]_vars

\* C39 witness: two sockets joined the same Presence channel with their
\* add_member calls both made before either list_members call: both frames
\* report the two members.
C39_Witness_BothReportBoth ==
    /\ sess[1].queue = <<SubOkPresenceFrame(PRESENCE_A, {UserOf(1), UserOf(2)}, 2)>>
    /\ sess[2].queue = <<SubOkPresenceFrame(PRESENCE_A, {UserOf(1), UserOf(2)}, 2)>>
    /\ Members(PRESENCE_A) = {1, 2}

\* C40: presence storage consistency: whenever no presence_add or
\* presence_remove call is in progress, the member-socket set of a channel and
\* the key set of its socket-to-member hash are equal, including after runs in
\* which individual bus commands of presence_add or presence_remove fail
\* part-way.
C40_PresenceStorageConsistency ==
    \A c \in Channels : rosterSet[c] = DOMAIN rosterHash[c]

SameInputsAsSigned ==
    /\ verifyCall.socket_id = signCall.socket_id
    /\ verifyCall.channel = signCall.channel
    /\ verifyCall.channel_data = signCall.channel_data

\* C8: for every secret, socket_id, Private or Presence channel and channel_data
\* that is present or absent, verify(channel, socket_id, sign(socket_id,
\* channel, channel_data), channel_data) returns ok.
C8_AuthRoundTrip ==
    (/\ signCall.made
     /\ verifyCall.made
     /\ is_private(from_name(signCall.channel))
     /\ SameInputsAsSigned
     /\ verifyCall.auth = Some(signCall.out))
    => verifyCall.result = "Ok"

\* The inputs of the verify call differ from the signed ones in the signature,
\* the socket id, the channel or, on a Presence channel with channel_data given
\* to both calls, the channel_data. (A Private channel's payload has no
\* channel_data, and a missing one is signed as "{}": those two differences
\* are left out, so that what remains is a difference in the signed bytes.)
Tampered ==
    \/ verifyCall.auth # Some(signCall.out)
    \/ verifyCall.socket_id # signCall.socket_id
    \/ verifyCall.channel # signCall.channel
    \/ /\ from_name(signCall.channel) = "Presence"
       /\ signCall.channel_data.some
       /\ verifyCall.channel_data.some
       /\ verifyCall.channel_data # signCall.channel_data

\* C9: given a signature produced by sign for a Private or Presence channel,
\* verify (on a Private or Presence channel) fails whenever it is called with a
\* different signature, socket_id, channel or channel_data.
C9_TamperRejection ==
    (/\ signCall.made
     /\ verifyCall.made
     /\ is_private(from_name(signCall.channel))
     /\ is_private(from_name(verifyCall.channel))
     /\ Tampered)
    => verifyCall.result # "Ok"

\* C10: verify returns ok for every channel classified Public, for every
\* socket_id and channel_data, whether auth is absent or has any value.
C10_PublicBypass ==
    (verifyCall.made /\ from_name(verifyCall.channel) = "Public")
    => verifyCall.result = "Ok"

\* C10 witness: verify was called on a Public channel with an auth string that
\* is no signature, and returned ok.
C10_Witness_PublicWithWrongAuth ==
    /\ verifyCall.made
    /\ from_name(verifyCall.channel) = "Public"
    /\ verifyCall.auth = Some(WrongAuth)
    /\ verifyCall.channel_data.some
    /\ verifyCall.result = "Ok"

====
